---- MODULE Spec2Model ----
(***************************************************************************)
(* Risk engine of the wstETH/WETH leverage dashboard: the Aave pool model, *)
(* the liquidation cascade simulator, the Monte Carlo engine, the          *)
(* liquidation model and the stress-scenario shock engine.                 *)
(*                                                                         *)
(* Floating-point quantities are carried in fixed point:                   *)
(*   - utilization, rates, prices, bonus and fractional drops in basis     *)
(*     points (BP = 1.0);                                                  *)
(*   - depeg_sensitivity in hundredths (PCT = 1.0);                        *)
(*   - token amounts in whole units.                                       *)
(* Divisions round down, as \div does.  LiquidationModel, VaultPosition    *)
(* and apply_scenario are carried in exact fractions instead (Rat).        *)
(***************************************************************************)
EXTENDS Integers, Sequences, FiniteSets, TLC

VARIABLES
    \* ---- PoolModel / simulate_cascade ----
    pool,          \* the caller's PoolState: [total_supply, total_debt]
    pool0,         \* history: the PoolState before the first call
    rate_params,   \* InterestRateParams of the rate model
    last,          \* the last call that returned: [op, arg, result]
    cpc,           \* position of simulate_cascade: "idle" or "loop"
    cfg,           \* the caller's CascadeConfig (a frozen dataclass)
    c,             \* locals of simulate_cascade
    calls,         \* history: number of calls that returned, counted up to 2
    \* ---- run_monte_carlo (one path of the vectorised arrays) ----
    mpc,           \* position of run_monte_carlo
    mcin,          \* arguments of run_monte_carlo
    noise,         \* the random draws of the path, one record per step >= 1
    util_paths,    \* utilization path (sequence, index 1 = step 0)
    peg_paths,     \* peg path, <<>> when peg_params is None
    rate_paths,
    collateral_paths,
    debt_paths,
    hf_paths,
    mcres,         \* MonteCarloResult of the path
    \* ---- calls of the pure functions (rate model, LiquidationModel,
    \*      apply_scenario), one call per behaviour ----
    fpc,           \* position of the call: "off", "call" or "return"
    fin,           \* its arguments
    fout,          \* its return values
    \* ---- seeded entry points called in sequence ----
    caller_rng,    \* the np.random.Generator the caller owns: [id, seed, pos]
    history,       \* history: the calls that returned, oldest first
    \* ---- OnChainDataProvider ----
    onchain,       \* the provider object: cache store, ttl, fallback, contracts
    now,           \* time.monotonic()
    events,        \* history: the getter and refresh calls that returned
    \* ---- simulate_cascade_with_positions ----
    ppc,           \* position of the call: "off", "loop" or "return"
    pin,           \* its arguments
    pl             \* its locals, and the result once it returned

poolVars == <<pool, pool0, rate_params, last, cpc, cfg, c, calls>>
mcVars == <<mpc, mcin, noise, util_paths, peg_paths, rate_paths, collateral_paths,
            debt_paths, hf_paths, mcres>>
fnVars == <<fpc, fin, fout>>
seedVars == <<caller_rng, history>>
provVars == <<onchain, now, events>>
posVars == <<ppc, pin, pl>>
vars == <<pool, pool0, rate_params, last, cpc, cfg, c, calls,
          mpc, mcin, noise, util_paths, peg_paths, rate_paths, collateral_paths,
          debt_paths, hf_paths, mcres, fpc, fin, fout, caller_rng, history,
         onchain, now, events, ppc, pin, pl>>

\* ---------------------------------------------------------------------
\* Fixed-point units
\* ---------------------------------------------------------------------
BP == 10000
PCT == 100

Min(a, b) == IF a < b THEN a ELSE b
Max(a, b) == IF a > b THEN a ELSE b

\* ---------------------------------------------------------------------
\* Bounds of the model
\* ---------------------------------------------------------------------
MaxSteps == 3        \* largest max_steps of a CascadeConfig
Horizon == 3         \* horizon_days of a Monte Carlo run

\* ---------------------------------------------------------------------
\* InterestRateModel (protocol/interest_rate.py)
\* ---------------------------------------------------------------------
RateParamSets ==
    { [optimal_utilization |-> 9200, base_rate |-> 0, slope1 |-> 270,
       slope2 |-> 4000, reserve_factor |-> 1500],
      [optimal_utilization |-> 8000, base_rate |-> 100, slope1 |-> 400,
       slope2 |-> 7500, reserve_factor |-> 1000] }

\* The branch below the kink: base_rate + (u / optimal_utilization) * slope1.
BelowKinkRate(p, u) ==
    p.base_rate + (u * p.slope1) \div p.optimal_utilization

AboveKinkRateNoSlope1(p, u) ==
    p.base_rate
    + ((u - p.optimal_utilization) * p.slope2) \div (BP - p.optimal_utilization)

\* The branch above the kink:
\* base_rate + slope1 + ((u - optimal) / (1 - optimal)) * slope2.
AboveKinkRate(p, u) ==
    p.base_rate + p.slope1
    + ((u - p.optimal_utilization) * p.slope2) \div (BP - p.optimal_utilization)

VariableBorrowRateNoLowerClamp(p, utilization) ==
    LET u == IF utilization >= BP THEN BP ELSE utilization IN
    IF u <= p.optimal_utilization
    THEN BelowKinkRate(p, u)
    ELSE AboveKinkRate(p, u)

variable_borrow_rate(p, utilization) ==
    IF utilization <= 0 THEN p.base_rate
    ELSE LET u == IF utilization >= BP THEN BP ELSE utilization IN
         IF u <= p.optimal_utilization
         THEN BelowKinkRate(p, u)
         ELSE AboveKinkRate(p, u)

supply_rate(p, utilization) ==
    LET u == Max(0, Min(BP, utilization))
        borrow_rate == variable_borrow_rate(p, u)
    IN  (((borrow_rate * u) \div BP) * (BP - p.reserve_factor)) \div BP

\* ---------------------------------------------------------------------
\* PoolState / PoolModel (protocol/pool.py)
\* ---------------------------------------------------------------------
PoolUtilization(ps) ==
    IF ps.total_supply <= 0 THEN 0
    ELSE (ps.total_debt * BP) \div ps.total_supply

\* self.state after a simulate_* call that computed the hypothetical
\* new_supply / new_debt: they are locals, nothing is stored back.
PoolStateAfterMutating(ps, new_supply, new_debt) ==
    [total_supply |-> new_supply, total_debt |-> new_debt]

PoolStateAfter(ps, new_supply, new_debt) == ps

BorrowNewDebt(ps, amount) == ps.total_debt + amount

simulate_borrow(ps, rp, amount) ==
    LET new_debt == BorrowNewDebt(ps, amount)
        u_after == IF ps.total_supply > 0
                   THEN (new_debt * BP) \div ps.total_supply ELSE 0
    IN  [utilization_before |-> PoolUtilization(ps),
         utilization_after |-> u_after,
         borrow_rate_before |-> variable_borrow_rate(rp, PoolUtilization(ps)),
         borrow_rate_after |-> variable_borrow_rate(rp, u_after),
         supply_rate_before |-> supply_rate(rp, PoolUtilization(ps)),
         supply_rate_after |-> supply_rate(rp, u_after)]

WithdrawalNewSupplyGrows(ps, amount) == ps.total_supply + amount

WithdrawalNewSupply(ps, amount) == Max(0, ps.total_supply - amount)

simulate_withdrawal(ps, rp, amount) ==
    LET new_supply == WithdrawalNewSupply(ps, amount)
        u_after == IF new_supply > 0
                   THEN Min(BP, (ps.total_debt * BP) \div new_supply) ELSE BP
    IN  [utilization_before |-> PoolUtilization(ps),
         utilization_after |-> u_after,
         borrow_rate_before |-> variable_borrow_rate(rp, PoolUtilization(ps)),
         borrow_rate_after |-> variable_borrow_rate(rp, u_after)]

LiquidationNewDebtNoFloor(ps, liquidated_debt) == ps.total_debt - liquidated_debt

LiquidationNewDebt(ps, liquidated_debt) == Max(0, ps.total_debt - liquidated_debt)

simulate_liquidation_impact(ps, rp, liquidated_debt) ==
    LET new_debt == LiquidationNewDebt(ps, liquidated_debt)
        u_after == IF ps.total_supply > 0
                   THEN (new_debt * BP) \div ps.total_supply ELSE 0
    IN  [utilization_before |-> PoolUtilization(ps),
         utilization_after |-> u_after,
         borrow_rate_after |-> variable_borrow_rate(rp, u_after),
         supply_rate_after |-> supply_rate(rp, u_after)]

\* ---------------------------------------------------------------------
\* simulate_cascade (simulation/liquidation_cascade.py)
\* ---------------------------------------------------------------------
PegDropCap == 9900       \* 0.99
PriceFloor == 100        \* 0.01

CollateralSeized(debt_to_liquidate, liquidation_bonus, collateral_price) ==
    (debt_to_liquidate * (BP + liquidation_bonus)) \div collateral_price

\* WETH pool: debt decreases, supply unchanged.
CascadePoolUpdateSupplyShrinks(supply, debt, debt_to_liquidate, collateral_seized) ==
    [supply |-> Max(0, supply - collateral_seized), debt |-> debt - debt_to_liquidate]

CascadePoolUpdate(supply, debt, debt_to_liquidate, collateral_seized) ==
    [supply |-> supply, debt |-> debt - debt_to_liquidate]

\* price_impact_per_unit is in basis points of peg per unit of wstETH sold.
PegDropUnclamped(collateral_seized, price_impact_per_unit) ==
    collateral_seized * price_impact_per_unit

PegDrop(collateral_seized, price_impact_per_unit) ==
    Min(collateral_seized * price_impact_per_unit, PegDropCap)

NewCollateralPriceNoFloor(collateral_price, peg_drop) ==
    (collateral_price * (BP - peg_drop)) \div BP

NewCollateralPriceRises(collateral_price, peg_drop) ==
    LET p == (collateral_price * (BP + peg_drop)) \div BP
    IN  IF p < PriceFloor THEN PriceFloor ELSE p

NewCollateralPrice(collateral_price, peg_drop) ==
    LET p == (collateral_price * (BP - peg_drop)) \div BP
    IN  IF p < PriceFloor THEN PriceFloor ELSE p

AtRiskDebtNoPegDrop(debt, depeg_sensitivity, peg_drop) ==
    Max(0, (debt * depeg_sensitivity) \div PCT)

AtRiskDebt(debt, depeg_sensitivity, peg_drop) ==
    Max(0, (((debt * depeg_sensitivity) \div PCT) * peg_drop) \div BP)

CappedDebtNoCap(debt_to_liquidate, debt) == debt_to_liquidate

CappedDebt(debt_to_liquidate, debt) ==
    IF debt_to_liquidate > debt THEN debt ELSE debt_to_liquidate

\* Locals of simulate_cascade before the loop (lines 84-94).
CascadeLocals(ps, k) ==
    [supply |-> ps.total_supply,
     debt |-> ps.total_debt,
     collateral_price |-> k.collateral_price,
     steps |-> <<>>,
     total_debt_liquidated |-> 0,
     total_collateral_seized |-> 0,
     debt_to_liquidate |-> k.initial_debt_to_liquidate,
     peg_drop |-> 0,
     step_num |-> 0]

\* The loop is entered for another round (range(max_steps), the break).
CascadeContinuesIgnoringThreshold(l, k) ==
    l.step_num < k.max_steps

CascadeContinues(l, k) ==
    /\ l.step_num < k.max_steps
    /\ ~(l.debt_to_liquidate < k.min_debt_threshold)

\* One iteration of the loop body (lines 99-142).
CascadeRound(l, k, rp) ==
    LET d == CappedDebt(l.debt_to_liquidate, l.debt)
        seized == CollateralSeized(d, k.liquidation_bonus, l.collateral_price)
        upd == CascadePoolUpdate(l.supply, l.debt, d, seized)
        drop == PegDrop(seized, k.price_impact_per_unit)
        price == NewCollateralPrice(l.collateral_price, drop)
        utilization == IF upd.supply > 0 THEN (upd.debt * BP) \div upd.supply ELSE 0
        new_rate == variable_borrow_rate(rp, utilization)
        at_risk_debt == AtRiskDebt(upd.debt, k.depeg_sensitivity, drop)
        step == [step |-> l.step_num + 1,
                 debt_liquidated |-> d,
                 collateral_seized |-> seized,
                 total_supply |-> upd.supply,
                 total_debt |-> upd.debt,
                 utilization |-> utilization,
                 borrow_rate |-> new_rate,
                 collateral_price |-> price,
                 at_risk_debt |-> at_risk_debt]
    IN  [supply |-> upd.supply,
         debt |-> upd.debt,
         collateral_price |-> price,
         steps |-> Append(l.steps, step),
         total_debt_liquidated |-> l.total_debt_liquidated + d,
         total_collateral_seized |-> l.total_collateral_seized + seized,
         debt_to_liquidate |-> at_risk_debt,
         peg_drop |-> drop,
         step_num |-> l.step_num + 1]

\* The CascadeResult built after the loop (lines 144-153).
CascadeResultOf(l, rp) ==
    LET final_util == IF l.supply > 0 THEN (l.debt * BP) \div l.supply ELSE 0
    IN  [steps |-> l.steps,
         total_debt_liquidated |-> l.total_debt_liquidated,
         total_collateral_seized |-> l.total_collateral_seized,
         final_utilization |-> final_util,
         final_borrow_rate |-> variable_borrow_rate(rp, final_util)]

RECURSIVE CascadeLoop(_, _, _)
CascadeLoop(l, k, rp) ==
    IF CascadeContinues(l, k) THEN CascadeLoop(CascadeRound(l, k, rp), k, rp)
    ELSE l

\* simulate_cascade as a function of its arguments.
simulate_cascade(ps, rp, k) ==
    CascadeResultOf(CascadeLoop(CascadeLocals(ps, k), k, rp), rp)

\* ---------------------------------------------------------------------
\* Monte Carlo engine (simulation/monte_carlo.py), one path of the arrays
\* ---------------------------------------------------------------------
DaysPerYear == 365       \* dt = 1/365
SqrtDt == 523            \* sqrt(1/365) = 0.0523
HFOne == 1000            \* health factor 1.0, in thousandths
PegFloor == 100          \* 0.01

Last(seq) == seq[Len(seq)]

ISqrt(n) == CHOOSE r \in 0..PCT : r * r <= n /\ (r + 1) * (r + 1) > n

\* exp(x) for a small x, to second order.
Exp(x) == BP + x + (x * x) \div (2 * BP)

ClipNothing(x, lo, hi) == x

Clip(x, lo, hi) == IF x < lo THEN lo ELSE IF x > hi THEN hi ELSE x

\* One Euler-Maruyama step of the OU process from the previous array value.
\* kappa is in hundredths, z in standard deviations.
OUStep(ou, prev, z) ==
    LET drift == (ou.kappa * (ou.theta - prev)) \div (PCT * DaysPerYear)
        diffusion == ((ou.sigma * SqrtDt) \div BP) * z
    IN  prev + drift + diffusion

\* dW_peg = rho z0 + sqrt(1 - rho^2) z1, in hundredths of a standard deviation.
DwPeg(pp, z0, z1) ==
    LET rho == pp.peg_util_correlation
        sqrt_one_minus_rho2 == ISqrt(Max(0, BP - rho * rho))
    IN  rho * z0 + sqrt_one_minus_rho2 * z1

\* One step of the peg path: GBM increment times the jump factor.
PegStep(pp, staking_apy, prev, z0, z1, jump) ==
    LET sigma == pp.peg_vol
        mu == staking_apy
        log_return == (mu - (sigma * sigma) \div (2 * BP)) \div DaysPerYear
                      + (((sigma * SqrtDt) \div BP) * DwPeg(pp, z0, z1)) \div PCT
        jump_factor == BP + pp.peg_jump_size * jump
    IN  (((prev * Exp(log_return)) \div BP) * jump_factor) \div BP

ClipPath(path, lo, hi) == [t \in 1..Len(path) |-> Clip(path[t], lo, hi)]

\* No upper bound: np.clip(peg_paths, 0.01, None).
FloorPath(path, lo) == [t \in 1..Len(path) |-> Max(path[t], lo)]

VectorizedRateWrongSpan(utilization, p) ==
    [t \in 1..Len(utilization) |->
        IF utilization[t] <= p.optimal_utilization
        THEN p.base_rate + (utilization[t] * p.slope1) \div p.optimal_utilization
        ELSE p.base_rate + p.slope1
             + ((utilization[t] - p.optimal_utilization) * p.slope2)
                   \div p.optimal_utilization]

vectorized_borrow_rate(utilization, p) ==
    [t \in 1..Len(utilization) |->
        IF utilization[t] <= p.optimal_utilization
        THEN p.base_rate + (utilization[t] * p.slope1) \div p.optimal_utilization
        ELSE p.base_rate + p.slope1
             + ((utilization[t] - p.optimal_utilization) * p.slope2)
                   \div (BP - p.optimal_utilization)]

\* x * (1 + rate / 365)
GrowDaily(x, rate) == x + (x * rate) \div (BP * DaysPerYear)

\* A balance compounding daily at rates[t-1], from `acc` up to n steps.
RECURSIVE CompoundPath(_, _, _)
CompoundPath(acc, rates, n) ==
    IF Len(acc) >= n THEN acc
    ELSE CompoundPath(Append(acc, GrowDaily(Last(acc), rates[Len(acc)])), rates, n)

ConstPath(x, n) == [t \in 1..n |-> x]

\* collateral_paths of the fixed-peg model (lines 279-280).
CollateralFixedPeg(in, n) ==
    CompoundPath(<<in.collateral_value>>, ConstPath(in.staking_apy + in.supply_apy, n), n)

\* collateral_paths of the peg model (lines 260-276).
CollateralWithPeg(in, peg, n) ==
    LET amount0 == IF in.initial_peg > 0
                   THEN (in.collateral_value * BP) \div in.initial_peg
                   ELSE in.collateral_value
        amount == CompoundPath(<<amount0>>, ConstPath(in.supply_apy, n), n)
    IN  [t \in 1..n |->
            IF t = 1 THEN in.collateral_value ELSE (amount[t] * peg[t]) \div BP]

HealthFactor(collateral, liquidation_threshold, debt) ==
    (collateral * liquidation_threshold) \div debt

HfPath(coll, lt, debt) == [t \in 1..Len(coll) |-> HealthFactor(coll[t], lt, debt[t])]

HfBelowOrEqual(hf) == hf <= HFOne

HfBelow(hf) == hf < HFOne

\* np.any(hf_paths < 1.0)
AnyBelow(hf) == \E t \in 1..Len(hf) : HfBelow(hf[t])

\* np.argmax(hf_below): the first step below 1.0 (index 1 = step 0).
FirstLiqStep(hf) == CHOOSE t \in 1..Len(hf) :
    HfBelow(hf[t]) /\ \A s \in 1..(t - 1) : ~HfBelow(hf[s])

NoFreeze(path, t) == path

FreezeFromNextStep(path, t) ==
    [s \in 1..Len(path) |-> IF s > t THEN path[Min(t + 1, Len(path))] ELSE path[s]]

\* path[t:] = path[t]
FreezeFrom(path, t) == [s \in 1..Len(path) |-> IF s >= t THEN path[t] ELSE path[s]]

\* ---------------------------------------------------------------------
\* Inputs
\* ---------------------------------------------------------------------
PoolStates ==
    { [total_supply |-> s, total_debt |-> d] :
        s \in {0, 2800}, d \in {0, 2200, 3000} }

Amounts == {0, 100, 500, 3000}

CascadeConfigs ==
    [initial_debt_to_liquidate : {50, 200, 3000},
     collateral_price : {50, 11800},
     liquidation_bonus : {100, 500},
     price_impact_per_unit : {0, 1, 100},
     depeg_sensitivity : {0, 50, 500},
     max_steps : 0..MaxSteps,
     min_debt_threshold : {0, 100}]

NoCall == [op |-> "none"]
NoLocals == [step_num |-> 0, steps |-> <<>>]

McIdle ==
    /\ mpc = "off"
    /\ mcin = <<>>
    /\ noise = <<>>
    /\ util_paths = <<>>
    /\ peg_paths = <<>>
    /\ rate_paths = <<>>
    /\ collateral_paths = <<>>
    /\ debt_paths = <<>>
    /\ hf_paths = <<>>
    /\ mcres = <<>>

FnIdle ==
    /\ fpc = "off"
    /\ fin = <<>>
    /\ fout = <<>>

SeedIdle ==
    /\ caller_rng = <<>>
    /\ history = <<>>

ProvIdle ==
    /\ onchain = <<>>
    /\ now = 0
    /\ events = <<>>

PosIdle ==
    /\ ppc = "off"
    /\ pin = <<>>
    /\ pl = <<>>

\* ---------------------------------------------------------------------
\* Pool model and cascade as a state machine
\* ---------------------------------------------------------------------
Init ==
    /\ pool \in PoolStates
    /\ pool0 = pool
    /\ rate_params \in RateParamSets
    /\ last = NoCall
    /\ cpc = "idle"
    /\ cfg \in CascadeConfigs
    /\ c = NoLocals
    /\ calls = 0
    /\ McIdle
    /\ FnIdle
    /\ SeedIdle
    /\ ProvIdle
    /\ PosIdle

SimulateBorrow(amount) ==
    /\ cpc = "idle"
    /\ last' = [op |-> "simulate_borrow", arg |-> amount,
                result |-> simulate_borrow(pool, rate_params, amount)]
    /\ pool' = PoolStateAfter(pool, pool.total_supply, BorrowNewDebt(pool, amount))
    /\ calls' = Min(calls + 1, 2)
    /\ UNCHANGED <<pool0, rate_params, cpc, cfg, c, mcVars, fnVars, seedVars, provVars, posVars>>

SimulateWithdrawal(amount) ==
    /\ cpc = "idle"
    /\ last' = [op |-> "simulate_withdrawal", arg |-> amount,
                result |-> simulate_withdrawal(pool, rate_params, amount)]
    /\ pool' = PoolStateAfter(pool, WithdrawalNewSupply(pool, amount), pool.total_debt)
    /\ calls' = Min(calls + 1, 2)
    /\ UNCHANGED <<pool0, rate_params, cpc, cfg, c, mcVars, fnVars, seedVars, provVars, posVars>>

SimulateLiquidationImpact(liquidated_debt) ==
    /\ cpc = "idle"
    /\ last' = [op |-> "simulate_liquidation_impact", arg |-> liquidated_debt,
                result |-> simulate_liquidation_impact(pool, rate_params, liquidated_debt)]
    /\ pool' = PoolStateAfter(pool, pool.total_supply,
                              LiquidationNewDebt(pool, liquidated_debt))
    /\ calls' = Min(calls + 1, 2)
    /\ UNCHANGED <<pool0, rate_params, cpc, cfg, c, mcVars, fnVars, seedVars, provVars, posVars>>

\* simulate_cascade is entered: lines 84-94.
CascadeBegin ==
    /\ cpc = "idle"
    /\ cpc' = "loop"
    /\ c' = CascadeLocals(pool, cfg)
    /\ last' = NoCall
    /\ UNCHANGED <<pool, pool0, rate_params, cfg, calls, mcVars, fnVars, seedVars, provVars, posVars>>

\* One round of the for loop: lines 96-142.
CascadeStepAction ==
    /\ cpc = "loop"
    /\ CascadeContinues(c, cfg)
    /\ c' = CascadeRound(c, cfg, rate_params)
    /\ pool' = PoolStateAfter(pool, c'.supply, c'.debt)
    /\ UNCHANGED <<pool0, rate_params, last, cpc, cfg, calls, mcVars, fnVars, seedVars, provVars, posVars>>

\* The loop is left (break or range exhausted) and the result returned:
\* lines 144-153.
CascadeReturn ==
    /\ cpc = "loop"
    /\ ~CascadeContinues(c, cfg)
    /\ last' = [op |-> "simulate_cascade", arg |-> cfg, locals |-> c,
                result |-> CascadeResultOf(c, rate_params)]
    /\ cpc' = "idle"
    /\ c' = NoLocals
    /\ calls' = Min(calls + 1, 2)
    /\ UNCHANGED <<pool, pool0, rate_params, cfg, mcVars, fnVars, seedVars, provVars, posVars>>

Next ==
    \/ \E amount \in Amounts : SimulateBorrow(amount)
    \/ \E amount \in Amounts : SimulateWithdrawal(amount)
    \/ \E liquidated_debt \in Amounts : SimulateLiquidationImpact(liquidated_debt)
    \/ CascadeBegin
    \/ CascadeStepAction
    \/ CascadeReturn

Spec == Init /\ [][Next]_vars

\* ---------------------------------------------------------------------
\* run_monte_carlo as a state machine
\* ---------------------------------------------------------------------
DefaultRateParams ==
    [optimal_utilization |-> 9200, base_rate |-> 0, slope1 |-> 270,
     slope2 |-> 4000, reserve_factor |-> 1500]

NoPeg == [enabled |-> FALSE]

PegParamSets ==
    { NoPeg,
      [enabled |-> TRUE, peg_vol |-> 1000, peg_jump_size |-> -500,
       peg_util_correlation |-> -50] }

\* (u0, OU parameters) pairs: a pool near full utilization, an idle pool.
UtilizationSetups ==
    { [u0 |-> 9980, ou |-> [theta |-> 7800, kappa |-> 500, sigma |-> 800]],
      [u0 |-> 0, ou |-> [theta |-> 0, kappa |-> 500, sigma |-> 800]] }

Positions ==
    { [collateral_value |-> 110000, debt_value |-> 105000],
      [collateral_value |-> 100000, debt_value |-> 95500] }

McInputs ==
    { [u0 |-> us.u0, ou_params |-> us.ou,
       collateral_value |-> pos.collateral_value, debt_value |-> pos.debt_value,
       liquidation_threshold |-> 955,
       staking_apy |-> sa, supply_apy |-> 0,
       rate |-> DefaultRateParams,
       horizon_days |-> Horizon,
       peg_params |-> pp, initial_peg |-> BP] :
        us \in UtilizationSetups, pos \in Positions, sa \in {0, 350},
        pp \in PegParamSets }

\* Draws of one step: z0, z1 in standard deviations, the Bernoulli jump.
Draws ==
    { [z0 |-> z0, z1 |-> zj[1], jump |-> zj[2]] :
        z0 \in {-2, 0, 2}, zj \in {<<-1, 0>>, <<1, 0>>, <<0, 1>>} }

DrawsFor(in) ==
    IF in.peg_params.enabled THEN Draws ELSE {d \in Draws : d.z1 = 1 /\ d.jump = 0}

PoolIdle ==
    /\ pool = [total_supply |-> 0, total_debt |-> 0]
    /\ pool0 = pool
    /\ rate_params = DefaultRateParams
    /\ last = NoCall
    /\ cpc = "off"
    /\ cfg = <<>>
    /\ c = NoLocals
    /\ calls = 0

NSteps == mcin.horizon_days + 1

InitMC ==
    /\ mcin \in McInputs
    /\ mpc = "simulate"
    /\ noise = <<>>
    /\ util_paths = <<mcin.u0>>
    /\ peg_paths = IF mcin.peg_params.enabled THEN <<mcin.initial_peg>> ELSE <<>>
    /\ rate_paths = <<>>
    /\ collateral_paths = <<>>
    /\ debt_paths = <<>>
    /\ hf_paths = <<>>
    /\ mcres = <<>>
    /\ PoolIdle
    /\ FnIdle
    /\ SeedIdle
    /\ ProvIdle
    /\ PosIdle

\* One iteration t of the path loops: simulate_utilization_paths lines 64-67,
\* _simulate_correlated_paths lines 116-119 and 130-137.
SimulateStep(d) ==
    /\ mpc = "simulate"
    /\ Len(util_paths) < NSteps
    /\ noise' = Append(noise, d)
    /\ util_paths' = Append(util_paths, OUStep(mcin.ou_params, Last(util_paths), d.z0))
    /\ peg_paths' = IF mcin.peg_params.enabled
                    THEN Append(peg_paths,
                                PegStep(mcin.peg_params, mcin.staking_apy,
                                        Last(peg_paths), d.z0, d.z1, d.jump))
                    ELSE peg_paths
    /\ UNCHANGED <<mpc, mcin, rate_paths, collateral_paths, debt_paths, hf_paths,
                   mcres, poolVars, fnVars, seedVars, provVars, posVars>>

\* After the loops: np.clip of the whole arrays (lines 70, 121, 140).
ClipPaths ==
    /\ mpc = "simulate"
    /\ Len(util_paths) = NSteps
    /\ util_paths' = ClipPath(util_paths, 0, BP)
    /\ peg_paths' = IF mcin.peg_params.enabled
                    THEN FloorPath(peg_paths, PegFloor) ELSE peg_paths
    /\ mpc' = "balances"
    /\ UNCHANGED <<mcin, noise, rate_paths, collateral_paths, debt_paths, hf_paths,
                   mcres, poolVars, fnVars, seedVars, provVars, posVars>>

\* Rates, collateral and debt balances: lines 243-282.
TrackBalances ==
    /\ mpc = "balances"
    /\ rate_paths' = vectorized_borrow_rate(util_paths, mcin.rate)
    /\ collateral_paths' = IF mcin.peg_params.enabled
                           THEN CollateralWithPeg(mcin, peg_paths, NSteps)
                           ELSE CollateralFixedPeg(mcin, NSteps)
    /\ debt_paths' = CompoundPath(<<mcin.debt_value>>, rate_paths', NSteps)
    /\ mpc' = "detect"
    /\ UNCHANGED <<mcin, noise, util_paths, peg_paths, hf_paths, mcres, poolVars,
                   fnVars, seedVars, provVars, posVars>>

\* Liquidation detection and freeze: lines 284-300.
DetectAndFreeze ==
    /\ mpc = "detect"
    /\ LET hf == HfPath(collateral_paths, mcin.liquidation_threshold, debt_paths)
           liquidated == AnyBelow(hf)
       IN  /\ IF liquidated
              THEN LET t == FirstLiqStep(hf) IN
                   /\ collateral_paths' = FreezeFrom(collateral_paths, t)
                   /\ debt_paths' = FreezeFrom(debt_paths, t)
                   /\ peg_paths' = IF mcin.peg_params.enabled
                                   THEN FreezeFrom(peg_paths, t) ELSE peg_paths
                   /\ hf_paths' = HfPath(collateral_paths', mcin.liquidation_threshold,
                                         debt_paths')
              ELSE /\ hf_paths' = hf
                   /\ UNCHANGED <<collateral_paths, debt_paths, peg_paths>>
           /\ mcres' = [liquidated |-> liquidated]
    /\ mpc' = "pnl"
    /\ UNCHANGED <<mcin, noise, util_paths, rate_paths, poolVars, fnVars, seedVars, provVars, posVars>>

\* P&L and the MonteCarloResult: lines 302-320.
ReturnResult ==
    /\ mpc = "pnl"
    /\ LET initial_equity == mcin.collateral_value - mcin.debt_value
           pnl_paths == [t \in 1..NSteps |->
                            (collateral_paths[t] - debt_paths[t]) - initial_equity]
       IN  mcres' = [utilization_paths |-> util_paths,
                     rate_paths |-> rate_paths,
                     pnl_paths |-> pnl_paths,
                     terminal_pnl |-> Last(pnl_paths),
                     liquidated |-> mcres.liquidated,
                     hf_paths |-> hf_paths,
                     peg_paths |-> peg_paths,
                     collateral_value_paths |-> collateral_paths]
    /\ mpc' = "done"
    /\ UNCHANGED <<mcin, noise, util_paths, peg_paths, rate_paths, collateral_paths,
                   debt_paths, hf_paths, poolVars, fnVars, seedVars, provVars, posVars>>

NextMC ==
    \/ \E d \in DrawsFor(mcin) : SimulateStep(d)
    \/ ClipPaths
    \/ TrackBalances
    \/ DetectAndFreeze
    \/ ReturnResult

SpecMC == InitMC /\ [][NextMC]_vars

\* ---------------------------------------------------------------------
\* The path generators as functions of the draws of one path
\* ---------------------------------------------------------------------
\* The loop of lines 64-67 (and 116-119) over the remaining draws.
RECURSIVE UtilLoop(_, _, _)
UtilLoop(ou, path, draws) ==
    IF draws = <<>> THEN path
    ELSE UtilLoop(ou, Append(path, OUStep(ou, Last(path), Head(draws).z0)),
                  Tail(draws))

simulate_utilization_paths(ou, u0, draws) ==
    ClipPath(UtilLoop(ou, <<u0>>, draws), 0, BP)

\* The loop of lines 130-137 over the remaining draws.
RECURSIVE PegLoop(_, _, _, _)
PegLoop(pp, staking_apy, path, draws) ==
    IF draws = <<>> THEN path
    ELSE LET d == Head(draws) IN
         PegLoop(pp, staking_apy,
                 Append(path, PegStep(pp, staking_apy, Last(path), d.z0, d.z1, d.jump)),
                 Tail(draws))

simulate_correlated_paths(ou, pp, u0, peg0, staking_apy, draws) ==
    [util_paths |-> ClipPath(UtilLoop(ou, <<u0>>, draws), 0, BP),
     peg_paths |-> FloorPath(PegLoop(pp, staking_apy, <<peg0>>, draws), PegFloor)]

FairSpec == Init /\ [][Next]_vars /\ WF_vars(CascadeStepAction) /\ WF_vars(CascadeReturn)

\* ---------------------------------------------------------------------
\* One evaluation of the rate curve: the scalar model at two utilizations
\* and the Monte Carlo engine's vectorised formula on the same two values
\* after its np.clip(., 0, 1)
\* ---------------------------------------------------------------------
\* Rate curves: the two of the pool model, a curve whose kink is at full
\* utilization, and a low kink with a steep second slope.
RateCurveSets ==
    RateParamSets \cup
    { [optimal_utilization |-> BP, base_rate |-> 50, slope1 |-> 300,
       slope2 |-> 6000, reserve_factor |-> 1000],
      [optimal_utilization |-> 4500, base_rate |-> 0, slope1 |-> 1,
       slope2 |-> 30000, reserve_factor |-> 0] }

\* Utilizations: below 0, the ends, around each kink, above 1, a coarse grid.
UtilizationGrid ==
    {-500, -1, 1, 4499, 4500, 4501, 7999, 8001, 9199, 9200, 9201, 9999,
     10001, 12000} \cup {k * 1000 : k \in 0..10}

RateInputs == [p : RateCurveSets, u1 : UtilizationGrid, u2 : UtilizationGrid]

InitRate ==
    /\ fpc = "call"
    /\ fin \in RateInputs
    /\ fout = <<>>
    /\ PoolIdle
    /\ McIdle
    /\ SeedIdle
    /\ ProvIdle
    /\ PosIdle

EvalRates ==
    /\ fpc = "call"
    /\ LET p == fin.p
           k == p.optimal_utilization
           utilization_paths == ClipPath(<<fin.u1, fin.u2>>, 0, BP)
       IN  fout' = [rate1 |-> variable_borrow_rate(p, fin.u1),
                    rate2 |-> variable_borrow_rate(p, fin.u2),
                    rate_at_zero |-> variable_borrow_rate(p, 0),
                    rate_at_one |-> variable_borrow_rate(p, BP),
                    rate_at_kink |-> variable_borrow_rate(p, k),
                    rate_under_kink |-> variable_borrow_rate(p, k - 1),
                    rate_over_kink |-> variable_borrow_rate(p, k + 1),
                    below_at_kink |-> BelowKinkRate(p, k),
                    \* with the kink at 1.0 the upper branch is never taken
                    above_at_kink |-> IF k < BP THEN AboveKinkRate(p, k) ELSE -1,
                    utilization_paths |-> utilization_paths,
                    rate_paths |-> vectorized_borrow_rate(utilization_paths, p)]
    /\ fpc' = "return"
    /\ UNCHANGED <<fin, poolVars, mcVars, seedVars, provVars, posVars>>

NextRate == EvalRates

SpecRate == InitRate /\ [][NextRate]_vars

\* ---------------------------------------------------------------------
\* The seeded entry points, called one after another by one caller
\* ---------------------------------------------------------------------
MaxCalls == 3        \* number of calls the caller makes

\* run_monte_carlo after the path generators, as a function of the draws of
\* the path (lines 243-320).
McResultOf(in, draws) ==
    LET n == in.horizon_days + 1
        sim == IF in.peg_params.enabled
               THEN simulate_correlated_paths(in.ou_params, in.peg_params, in.u0,
                                              in.initial_peg, in.staking_apy, draws)
               ELSE [util_paths |-> simulate_utilization_paths(in.ou_params, in.u0, draws),
                     peg_paths |-> <<>>]
        rates == vectorized_borrow_rate(sim.util_paths, in.rate)
        coll == IF in.peg_params.enabled
                THEN CollateralWithPeg(in, sim.peg_paths, n)
                ELSE CollateralFixedPeg(in, n)
        debt == CompoundPath(<<in.debt_value>>, rates, n)
        hf == HfPath(coll, in.liquidation_threshold, debt)
        liquidated == AnyBelow(hf)
        coll_f == IF liquidated THEN FreezeFrom(coll, FirstLiqStep(hf)) ELSE coll
        debt_f == IF liquidated THEN FreezeFrom(debt, FirstLiqStep(hf)) ELSE debt
        peg_f == IF liquidated /\ in.peg_params.enabled
                 THEN FreezeFrom(sim.peg_paths, FirstLiqStep(hf)) ELSE sim.peg_paths
        initial_equity == in.collateral_value - in.debt_value
        pnl_paths == [t \in 1..n |-> (coll_f[t] - debt_f[t]) - initial_equity]
    IN  [utilization_paths |-> sim.util_paths,
         rate_paths |-> rates,
         pnl_paths |-> pnl_paths,
         terminal_pnl |-> Last(pnl_paths),
         liquidated |-> liquidated,
         hf_paths |-> HfPath(coll_f, in.liquidation_threshold, debt_f),
         peg_paths |-> peg_f,
         collateral_value_paths |-> coll_f]

\* The output stream of the bit generator seeded with `seed`: some fixed
\* function of the seed and the position in the stream, with values 0..8.
Stream(seed, i) == ((seed + i) * (seed + i + 3) + i) % 9

NormalOf(r) == ((r % 3) - 1) * 2         \* a standard normal draw: -2, 0, 2
NormalOf1(r) == (r \div 3) - 1           \* the second normal: -1, 0, 1
JumpOf(r) == IF r = 0 THEN 1 ELSE 0      \* the binomial(1, p) draw

McGeneratorShared(seed, existing) == existing

\* rng = np.random.default_rng(seed): a new generator at the start of the
\* seed's stream, whatever generator the caller already holds.
McGenerator(seed, existing) == [id |-> "local", seed |-> seed, pos |-> 0]

\* Number of values a run takes from its generator: standard_normal of
\* shape (2, n, h) and binomial of shape (n, h) with peg dynamics,
\* standard_normal of shape (n, h) without.
DrawCount(in) == IF in.peg_params.enabled THEN 3 * in.horizon_days ELSE in.horizon_days

\* The draws of the path taken from generator g, in the order of the calls.
DrawPath(g, in) ==
    LET h == in.horizon_days IN
    [t \in 1..h |->
        IF in.peg_params.enabled
        THEN [z0 |-> NormalOf(Stream(g.seed, g.pos + t - 1)),
              z1 |-> NormalOf1(Stream(g.seed, g.pos + h + t - 1)),
              jump |-> JumpOf(Stream(g.seed, g.pos + 2 * h + t - 1))]
        ELSE [z0 |-> NormalOf(Stream(g.seed, g.pos + t - 1)), z1 |-> 1, jump |-> 0]]

\* Drawing k values from g moves g; the caller's generator moves only when
\* it is the one drawn from.
AfterDraws(caller, g, k) ==
    IF g.id = caller.id THEN [caller EXCEPT !.pos = g.pos + k] ELSE caller

Seeds == {42, 7}

\* Arguments of the seeded runs: one with peg dynamics, one without.
SeededInputs ==
    { in \in McInputs :
        /\ in.u0 = 9980 /\ in.staking_apy = 350
        /\ in.collateral_value = 110000 }

InitSeed ==
    /\ caller_rng = [id |-> "caller", seed |-> 1, pos |-> 0]
    /\ history = <<>>
    /\ PoolIdle
    /\ McIdle
    /\ FnIdle
    /\ ProvIdle
    /\ PosIdle

RunMonteCarlo(in, seed) ==
    /\ Len(history) < MaxCalls
    /\ LET rng == McGenerator(seed, caller_rng)
           res == McResultOf(in, DrawPath(rng, in))
       IN  /\ history' = Append(history,
                                [op |-> "run_monte_carlo", args |-> in, seed |-> seed,
                                 terminal_pnl |-> res.terminal_pnl,
                                 peg_paths |-> res.peg_paths,
                                 liquidated |-> res.liquidated])
           /\ caller_rng' = AfterDraws(caller_rng, rng, DrawCount(in))
    /\ UNCHANGED <<poolVars, mcVars, fnVars, provVars, posVars>>

\* simulate_utilization_paths(ou, u0, 1, n_steps, dt, rng) on the caller's
\* generator.
SimulateUtilizationPaths(in) ==
    /\ Len(history) < MaxCalls
    /\ LET draws == DrawPath(caller_rng, [in EXCEPT !.peg_params = NoPeg])
       IN  /\ history' = Append(history,
                                [op |-> "simulate_utilization_paths",
                                 paths |-> simulate_utilization_paths(
                                               in.ou_params, in.u0, draws)])
           /\ caller_rng' = AfterDraws(caller_rng, caller_rng, in.horizon_days)
    /\ UNCHANGED <<poolVars, mcVars, fnVars, provVars, posVars>>

\* generate_correlated_scenarios(1, seed=seed): three normals from a
\* generator of its own (lines 113, 123).
GenerateCorrelatedScenarios(seed) ==
    /\ Len(history) < MaxCalls
    /\ LET rng == [id |-> "local", seed |-> seed, pos |-> 0]
       IN  /\ history' = Append(history,
                                [op |-> "generate_correlated_scenarios", seed |-> seed,
                                 z |-> [k \in 1..3 |-> NormalOf(Stream(seed, k - 1))]])
           /\ caller_rng' = AfterDraws(caller_rng, rng, 3)
    /\ UNCHANGED <<poolVars, mcVars, fnVars, provVars, posVars>>

NextSeed ==
    \/ \E in \in SeededInputs, seed \in Seeds : RunMonteCarlo(in, seed)
    \/ \E in \in SeededInputs : SimulateUtilizationPaths(in)
    \/ \E seed \in Seeds : GenerateCorrelatedScenarios(seed)

SpecSeed == InitSeed /\ [][NextSeed]_vars

\* ---------------------------------------------------------------------
\* Exact arithmetic for LiquidationModel and the shock engine: a value is a
\* fraction [n, d] in lowest terms with d > 0; float("inf") is [1, 0].
\* ---------------------------------------------------------------------
Abs(x) == IF x < 0 THEN -x ELSE x

RECURSIVE GCD(_, _)
GCD(a, b) == IF b = 0 THEN a ELSE GCD(b, a % b)

Rat(n, d) ==
    LET g == GCD(Abs(n), Abs(d))
        sgn == IF d < 0 THEN -1 ELSE 1
    IN  [n |-> (sgn * n) \div g, d |-> (sgn * d) \div g]

RInt(x) == [n |-> x, d |-> 1]
RInf == [n |-> 1, d |-> 0]
RZero == RInt(0)
ROne == RInt(1)

RMul(a, b) ==
    LET g1 == GCD(Abs(a.n), b.d)
        g2 == GCD(Abs(b.n), a.d)
    IN  [n |-> (a.n \div g1) * (b.n \div g2), d |-> (a.d \div g2) * (b.d \div g1)]

RDiv(a, b) == RMul(a, Rat(b.d, b.n))
RSub(a, b) == Rat(a.n * b.d - b.n * a.d, a.d * b.d)
RLt(a, b) == a.n * b.d < b.n * a.d
RLe(a, b) == a.n * b.d <= b.n * a.d
RGe(a, b) == RLe(b, a)

\* ---------------------------------------------------------------------
\* LiquidationModel (protocol/liquidation.py)
\* ---------------------------------------------------------------------
StandardParams ==
    [ltv |-> Rat(805, 1000), liquidation_threshold |-> Rat(83, 100),
     liquidation_bonus |-> Rat(5, 100)]

NoEMode == [category_id |-> 0]

EModeEthCorrelated ==
    [category_id |-> 1, ltv |-> Rat(935, 1000), liquidation_threshold |-> Rat(955, 1000),
     liquidation_bonus |-> Rat(1, 100)]

\* LiquidationModel.__init__: an E-mode category overrides all three values.
LiquidationModelOf(params, emode) ==
    IF emode # NoEMode
    THEN [ltv |-> emode.ltv, liquidation_threshold |-> emode.liquidation_threshold,
          liquidation_bonus |-> emode.liquidation_bonus]
    ELSE [ltv |-> params.ltv, liquidation_threshold |-> params.liquidation_threshold,
          liquidation_bonus |-> params.liquidation_bonus]

\* A float division by 0.0 raises; the call ends with this instead of a value.
ZeroDivisionError == [raised |-> "ZeroDivisionError"]

health_factor(self, collateral_value, debt_value) ==
    IF RLe(debt_value, RZero) THEN RInf
    ELSE RDiv(RMul(collateral_value, self.liquidation_threshold), debt_value)

CloseFactorStrictBoundary(hf) ==
    IF RGe(hf, ROne) THEN RZero
    ELSE IF RLt(Rat(95, 100), hf) THEN Rat(1, 2)
    ELSE ROne

close_factor(hf) ==
    IF RGe(hf, ROne) THEN RZero
    ELSE IF RGe(hf, Rat(95, 100)) THEN Rat(1, 2)
    ELSE ROne

LiquidationPriceDropNoThreshold(self, collateral_value, debt_value) ==
    IF RLe(debt_value, RZero) THEN RInf
    ELSE LET critical_ratio == RDiv(debt_value, collateral_value)
         IN  IF RGe(critical_ratio, ROne) THEN RZero
             ELSE RSub(ROne, critical_ratio)

liquidation_price_drop(self, collateral_value, debt_value) ==
    IF RLe(debt_value, RZero) THEN RInf
    ELSE LET divisor == RMul(collateral_value, self.liquidation_threshold)
             critical_ratio == RDiv(debt_value, divisor)
         IN  IF divisor = RZero THEN ZeroDivisionError
             ELSE IF RGe(critical_ratio, ROne) THEN RZero
             ELSE RSub(ROne, critical_ratio)

DepegToLiquidationNoPrice(self, collateral_amount, collateral_price, debt_value) ==
    IF RLe(debt_value, RZero) THEN RZero
    ELSE LET peg == RDiv(debt_value,
                         RMul(collateral_amount, self.liquidation_threshold))
         IN  IF RGe(peg, ROne) THEN RZero ELSE peg

depeg_to_liquidation(self, collateral_amount, collateral_price, debt_value) ==
    IF RLe(debt_value, RZero) THEN RZero
    ELSE LET divisor == RMul(RMul(collateral_amount, collateral_price),
                             self.liquidation_threshold)
             peg == RDiv(debt_value, divisor)
         IN  IF divisor = RZero THEN ZeroDivisionError
             ELSE IF RGe(peg, ROne) THEN RZero ELSE peg

\* ---------------------------------------------------------------------
\* One position in a round of simulate_cascade_with_positions
\* (simulation/liquidation_cascade.py)
\* ---------------------------------------------------------------------
\* The health factor recomputed at the current collateral price.
PositionHf(pos, current_price, liquidation_threshold) ==
    RDiv(RMul(RMul(pos.collateral_wsteth, current_price), liquidation_threshold),
         pos.debt_weth)

\* _find_at_risk_positions for one position that is not yet liquidated.
IsAtRisk(pos, current_price, liquidation_threshold) ==
    /\ ~RLe(pos.debt_weth, RZero)
    /\ RLt(PositionHf(pos, current_price, liquidation_threshold), ROne)

\* The close factor chosen in the loop over the at-risk positions.
PositionCloseFactor(hf) == IF RGe(hf, Rat(95, 100)) THEN Rat(1, 2) ELSE ROne

\* debt_to_liq of the position in this round; nothing when it is not at risk.
PositionDebtToLiq(pos, current_price, liquidation_threshold) ==
    IF IsAtRisk(pos, current_price, liquidation_threshold)
    THEN RMul(pos.debt_weth,
              PositionCloseFactor(PositionHf(pos, current_price, liquidation_threshold)))
    ELSE RZero

\* ---------------------------------------------------------------------
\* One call of each LiquidationModel method on one position
\* ---------------------------------------------------------------------
LiquidationModels ==
    { LiquidationModelOf(StandardParams, NoEMode),
      LiquidationModelOf(StandardParams, EModeEthCorrelated) }

CollateralAmounts == {RInt(100), RInt(190), RInt(12000)}
CollateralPrices == {ROne, Rat(118, 100)}
DebtValues ==
    {RInt(-5), RZero, RInt(50), RInt(83), RInt(100), RInt(166), RInt(191),
     RInt(10500), RInt(13000)}

\* Health factors passed to close_factor, the two boundaries and their
\* neighbours among them.
HealthFactors ==
    {Rat(1, 2), Rat(94, 100), Rat(9499, 10000), Rat(95, 100), Rat(98, 100),
     Rat(9999, 10000), ROne, Rat(3, 2), RInf}

\* Fractions of the returned drop tried as smaller drops.
DropFractions == {RZero, Rat(1, 4), Rat(1, 2), Rat(99, 100)}

LiquidationInputs ==
    [self : LiquidationModels, collateral_amount : CollateralAmounts,
     collateral_price : CollateralPrices, debt_value : DebtValues,
     hf : HealthFactors]

InitLiq ==
    /\ fpc = "call"
    /\ fin \in LiquidationInputs
    /\ fout = <<>>
    /\ PoolIdle
    /\ McIdle
    /\ SeedIdle
    /\ ProvIdle
    /\ PosIdle

EvalLiquidation ==
    /\ fpc = "call"
    /\ LET self == fin.self
           debt == fin.debt_value
           collateral_value == RMul(fin.collateral_amount, fin.collateral_price)
           drop == liquidation_price_drop(self, collateral_value, debt)
           peg == depeg_to_liquidation(self, fin.collateral_amount,
                                       fin.collateral_price, debt)
           pos == [collateral_wsteth |-> fin.collateral_amount, debt_weth |-> debt]
           HfAfter(d) == health_factor(self, RMul(collateral_value, RSub(ROne, d)), debt)
       IN  fout' = [collateral_value |-> collateral_value,
                    health_factor |-> health_factor(self, collateral_value, debt),
                    close_factor |-> close_factor(fin.hf),
                    liquidation_price_drop |-> drop,
                    hf_after_drop |-> IF drop = RInf THEN RInf ELSE HfAfter(drop),
                    hf_after_smaller |->
                        IF drop = RInf THEN {}
                        ELSE {HfAfter(RMul(drop, f)) : f \in DropFractions},
                    depeg_to_liquidation |-> peg,
                    hf_at_depeg |->
                        health_factor(self,
                                      RMul(RMul(fin.collateral_amount,
                                                fin.collateral_price), peg), debt),
                    at_risk |-> IsAtRisk(pos, fin.collateral_price,
                                         self.liquidation_threshold),
                    position_hf |-> IF RLe(debt, RZero) THEN RInf
                                    ELSE PositionHf(pos, fin.collateral_price,
                                                    self.liquidation_threshold),
                    debt_to_liq |-> PositionDebtToLiq(pos, fin.collateral_price,
                                                      self.liquidation_threshold)]
    /\ fpc' = "return"
    /\ UNCHANGED <<fin, poolVars, mcVars, seedVars, provVars, posVars>>

NextLiq == EvalLiquidation

SpecLiq == InitLiq /\ [][NextLiq]_vars

\* ---------------------------------------------------------------------
\* VaultPosition (position/vault_position.py) on the static provider, and
\* apply_scenario (stress/shock_engine.py)
\* ---------------------------------------------------------------------
\* StaticDataProvider: prices in ETH, wstETH liquidation parameters, the
\* ETH-correlated E-mode category.
StaticDataProvider ==
    [price_wsteth |-> Rat(118, 100), price_weth |-> ROne,
     liquidation_params |-> [ltv |-> Rat(795, 1000),
                             liquidation_threshold |-> Rat(81, 100),
                             liquidation_bonus |-> Rat(7, 100)],
     emode |-> EModeEthCorrelated]

\* A provider quoting wstETH at par.
ParDataProvider == [StaticDataProvider EXCEPT !.price_wsteth = ROne]

VaultCollateralValue(pos, provider) == RMul(pos.collateral_amount, provider.price_wsteth)

VaultDebtValue(pos, provider) == RMul(pos.debt_amount, provider.price_weth)

VaultLiquidationModelNoEMode(pos, provider) ==
    LiquidationModelOf(provider.liquidation_params, NoEMode)

\* get_liquidation_model: the E-mode category when emode_enabled.
VaultLiquidationModel(pos, provider) ==
    LiquidationModelOf(provider.liquidation_params,
                       IF pos.emode_enabled THEN provider.emode ELSE NoEMode)

VaultHealthFactor(pos, provider) ==
    health_factor(VaultLiquidationModel(pos, provider),
                  VaultCollateralValue(pos, provider), VaultDebtValue(pos, provider))

\* StressScenario records: the three historical ones, the two of the tests
\* (no stress, severe depeg) and three custom ones repeating their pegs with
\* other ETH moves, utilization shocks and durations.
Scenarios ==
    { [name |-> "June 2022 stETH Depeg", eth_price_change |-> Rat(-40, 100),
       steth_peg |-> Rat(93, 100), utilization_shock |-> Rat(95, 100),
       duration_days |-> 14],
      [name |-> "March 2020 Black Thursday", eth_price_change |-> Rat(-50, 100),
       steth_peg |-> Rat(98, 100), utilization_shock |-> Rat(98, 100),
       duration_days |-> 3],
      [name |-> "May 2022 Terra/Luna", eth_price_change |-> Rat(-35, 100),
       steth_peg |-> Rat(95, 100), utilization_shock |-> Rat(93, 100),
       duration_days |-> 7],
      [name |-> "No stress", eth_price_change |-> RZero,
       steth_peg |-> ROne, utilization_shock |-> Rat(44, 100),
       duration_days |-> 7],
      [name |-> "Severe", eth_price_change |-> Rat(-60, 100),
       steth_peg |-> Rat(75, 100), utilization_shock |-> Rat(99, 100),
       duration_days |-> 7],
      [name |-> "Custom A", eth_price_change |-> Rat(20, 100),
       steth_peg |-> Rat(75, 100), utilization_shock |-> Rat(44, 100),
       duration_days |-> 1],
      [name |-> "Custom B", eth_price_change |-> Rat(-90, 100),
       steth_peg |-> ROne, utilization_shock |-> ROne,
       duration_days |-> 30],
      [name |-> "Custom C", eth_price_change |-> RZero,
       steth_peg |-> Rat(93, 100), utilization_shock |-> Rat(50, 100),
       duration_days |-> 14] }

ApplyScenarioWithEthMove(scenario, collateral_amount, collateral_price, debt_value, liquidation_threshold, current_peg) ==
    LET collateral_before == RMul(RMul(collateral_amount, collateral_price), current_peg)
        hf_before == IF RLt(RZero, debt_value)
                     THEN RDiv(RMul(collateral_before, liquidation_threshold), debt_value)
                     ELSE RInf
        collateral_after ==
            RMul(RMul(RMul(collateral_amount, collateral_price), scenario.steth_peg),
                 RSub(ROne, RSub(RZero, scenario.eth_price_change)))
        hf_after == IF RLt(RZero, debt_value)
                    THEN RDiv(RMul(collateral_after, liquidation_threshold), debt_value)
                    ELSE RInf
    IN  [hf_before |-> hf_before, hf_after |-> hf_after,
         collateral_before |-> collateral_before,
         collateral_after |-> collateral_after,
         pnl_impact |-> RSub(collateral_after, collateral_before),
         is_liquidated |-> RLt(hf_after, ROne)]

apply_scenario(scenario, collateral_amount, collateral_price, debt_value, liquidation_threshold, current_peg) ==
    LET collateral_before == RMul(RMul(collateral_amount, collateral_price), current_peg)
        hf_before == IF RLt(RZero, debt_value)
                     THEN RDiv(RMul(collateral_before, liquidation_threshold), debt_value)
                     ELSE RInf
        collateral_after ==
            RMul(RMul(collateral_amount, collateral_price), scenario.steth_peg)
        hf_after == IF RLt(RZero, debt_value)
                    THEN RDiv(RMul(collateral_after, liquidation_threshold), debt_value)
                    ELSE RInf
    IN  [hf_before |-> hf_before, hf_after |-> hf_after,
         collateral_before |-> collateral_before,
         collateral_after |-> collateral_after,
         pnl_impact |-> RSub(collateral_after, collateral_before),
         is_liquidated |-> RLt(hf_after, ROne)]

VaultPositions ==
    [collateral_amount : {RInt(12000), RInt(100)},
     debt_amount : {RZero, RInt(90), RInt(10500)},
     emode_enabled : BOOLEAN]

\* A position, its provider, the current peg and two scenarios to apply.
ShockInputs ==
    [position : VaultPositions, provider : {StaticDataProvider, ParDataProvider},
     current_peg : {ROne, Rat(98, 100)}, scenario1 : Scenarios, scenario2 : Scenarios]

InitShock ==
    /\ fpc = "call"
    /\ fin \in ShockInputs
    /\ fout = <<>>
    /\ PoolIdle
    /\ McIdle
    /\ SeedIdle
    /\ ProvIdle
    /\ PosIdle

\* The vault's health factor, then apply_scenario for each scenario on the
\* vault's amounts, the provider's wstETH price and the vault's threshold.
EvalShock ==
    /\ fpc = "call"
    /\ LET pos == fin.position
           lt == VaultLiquidationModel(pos, fin.provider).liquidation_threshold
           Apply(scenario) ==
               apply_scenario(scenario, pos.collateral_amount, fin.provider.price_wsteth,
                              VaultDebtValue(pos, fin.provider), lt, fin.current_peg)
       IN  fout' = [vault_hf |-> VaultHealthFactor(pos, fin.provider),
                    shock1 |-> Apply(fin.scenario1),
                    shock2 |-> Apply(fin.scenario2)]
    /\ fpc' = "return"
    /\ UNCHANGED <<fin, poolVars, mcVars, seedVars, provVars, posVars>>

NextShock == EvalShock

SpecShock == InitShock /\ [][NextShock]_vars

\* =====================================================================
\* Properties of simulate_cascade and PoolModel
\* =====================================================================
CascadeReturned == last.op = "simulate_cascade"

\* The steps recorded so far by the running cascade, or by the one that
\* returned last.
RecordedSteps ==
    IF cpc = "loop" THEN c.steps
    ELSE IF CascadeReturned THEN last.result.steps
    ELSE <<>>

RECURSIVE SumField(_, _)
SumField(st, f) ==
    IF st = <<>> THEN 0 ELSE st[1][f] + SumField(Tail(st), f)

\* The debt requested for round i.
RequestedDebt(st, k, i) ==
    IF i = 1 THEN k.initial_debt_to_liquidate ELSE st[i - 1].at_risk_debt

\* C3 (state part): at most max_steps rounds; round i is executed iff
\* i <= max_steps and the debt requested for it is >= min_debt_threshold;
\* a below-threshold initial request gives no step and nothing liquidated;
\* zero depeg_sensitivity gives exactly one step.
C3_RoundsInv ==
    /\ cpc = "loop" => c.step_num <= cfg.max_steps /\ Len(c.steps) = c.step_num
    /\ CascadeReturned =>
         LET st == last.result.steps
             n == Len(st)
         IN  /\ n <= cfg.max_steps
             /\ \A i \in 1..n : RequestedDebt(st, cfg, i) >= cfg.min_debt_threshold
             /\ n < cfg.max_steps =>
                  RequestedDebt(st, cfg, n + 1) < cfg.min_debt_threshold
             /\ cfg.initial_debt_to_liquidate < cfg.min_debt_threshold =>
                  n = 0 /\ last.result.total_debt_liquidated = 0
             /\ ( /\ cfg.depeg_sensitivity = 0
                  /\ cfg.min_debt_threshold > 0
                  /\ cfg.max_steps >= 1
                  /\ cfg.initial_debt_to_liquidate >= cfg.min_debt_threshold ) =>
                  n = 1

\* C3: simulate_cascade always terminates, and its rounds are exactly those
\* with i <= max_steps whose requested debt reaches min_debt_threshold.
C3_CascadeTerminates ==
    /\ []C3_RoundsInv
    /\ (cpc = "loop") ~> (cpc = "idle" /\ CascadeReturned)

\* A cascade that ran two rounds and then stopped on the threshold before
\* max_steps was exhausted.
C3_Witness ==
    /\ CascadeReturned
    /\ Len(last.result.steps) = 2
    /\ cfg.max_steps > 2
    /\ cfg.min_debt_threshold > 0

\* C4: no simulate operation mutates the pool state, and every call returns
\* what it would have returned as the first call on the initial state.
C4_NoMutation ==
    /\ pool = pool0
    /\ last.op = "simulate_borrow" =>
         last.result = simulate_borrow(pool0, rate_params, last.arg)
    /\ last.op = "simulate_withdrawal" =>
         last.result = simulate_withdrawal(pool0, rate_params, last.arg)
    /\ last.op = "simulate_liquidation_impact" =>
         last.result = simulate_liquidation_impact(pool0, rate_params, last.arg)
    /\ last.op = "simulate_cascade" =>
         last.result = simulate_cascade(pool0, rate_params, last.arg)

\* A cascade that liquidated debt has returned after at least one earlier
\* call, on a pool with debt.
C4_Witness ==
    /\ calls >= 2
    /\ CascadeReturned
    /\ Len(last.result.steps) >= 2
    /\ last.result.total_debt_liquidated > 0
    /\ pool.total_debt > 0

\* C5: the first cascade step leaves supply unchanged, reduces debt to
\* max(0, debt - d) and records the utilization and rate that
\* simulate_liquidation_impact(d) returns; utilization does not rise.
C5_MirrorsLiquidationImpact ==
    Len(RecordedSteps) >= 1 =>
        LET s == RecordedSteps[1]
            d == cfg.initial_debt_to_liquidate
            imp == simulate_liquidation_impact(pool, rate_params, d)
        IN  /\ d >= cfg.min_debt_threshold
            /\ s.total_supply = pool.total_supply
            /\ s.total_debt = Max(0, pool.total_debt - d)
            /\ s.utilization = imp.utilization_after
            /\ s.borrow_rate = imp.borrow_rate_after
            /\ imp.utilization_after <= imp.utilization_before
            /\ s.utilization <= PoolUtilization(pool)

\* A first step that seized collateral and lowered utilization.
C5_Witness ==
    /\ Len(RecordedSteps) >= 1
    /\ RecordedSteps[1].collateral_seized > 0
    /\ RecordedSteps[1].utilization < PoolUtilization(pool)
    /\ RecordedSteps[1].utilization > 0

\* C6: the per-round peg drop is at most 0.99 and every recorded
\* collateral_price is at least 0.01.
C6_PriceFloor ==
    /\ cfg.collateral_price > 0 /\ cfg.price_impact_per_unit >= 0
    /\ cpc = "loop" => c.peg_drop <= PegDropCap
    /\ CascadeReturned => last.locals.peg_drop <= PegDropCap
    /\ \A i \in 1..Len(RecordedSteps) :
         RecordedSteps[i].collateral_price >= PriceFloor

\* An extreme price impact: the drop is capped and the price sits on the
\* floor after starting well above it.
C6_Witness ==
    /\ cpc = "loop"
    /\ cfg.collateral_price > PriceFloor
    /\ c.peg_drop = PegDropCap
    /\ Len(c.steps) >= 1
    /\ c.steps[Len(c.steps)].collateral_price = PriceFloor

\* The peg drop of a recorded step, from its recorded seizure.
StepPegDrop(s) == Min(s.collateral_seized * cfg.price_impact_per_unit, PegDropCap)

\* C7 as stated: with a positive price impact and an initial price >= 0.01
\* every step has a strictly lower price than the step before it.
C7_StrictlyLowerEachStep ==
    (cfg.price_impact_per_unit > 0 /\ cfg.collateral_price >= PriceFloor) =>
        \A i \in 2..Len(RecordedSteps) :
            RecordedSteps[i].collateral_price < RecordedSteps[i - 1].collateral_price

\* C7 (amended): the price never rises from one step to the next, and it is
\* strictly lower unless the previous price is already on the 0.01 floor
\* or the step's peg drop is zero.
C7_NonIncreasingPrice ==
    (cfg.price_impact_per_unit > 0 /\ cfg.collateral_price >= PriceFloor) =>
        \A i \in 2..Len(RecordedSteps) :
            LET prev == RecordedSteps[i - 1].collateral_price
                cur == RecordedSteps[i].collateral_price
            IN  /\ cur <= prev
                /\ (prev > PriceFloor /\ StepPegDrop(RecordedSteps[i]) > 0) => cur < prev

\* Three steps with a positive impact: the price fell strictly from the
\* first to the second step and then stayed on the floor.
C7_Witness ==
    /\ cfg.price_impact_per_unit > 0
    /\ cfg.collateral_price > PriceFloor
    /\ Len(RecordedSteps) >= 3
    /\ RecordedSteps[2].collateral_price < RecordedSteps[1].collateral_price
    /\ RecordedSteps[3].collateral_price = RecordedSteps[2].collateral_price
    /\ RecordedSteps[3].collateral_seized > 0

\* C8: at_risk_debt = remaining debt x depeg_sensitivity x peg_drop, and it
\* is the next round's liquidation input (capped by the remaining debt),
\* seized at the previous step's price with the bonus.
C8_AtRiskFeedsNextRound ==
    /\ \A i \in 1..Len(RecordedSteps) :
         LET s == RecordedSteps[i]
         IN  s.at_risk_debt =
                (((s.total_debt * cfg.depeg_sensitivity) \div PCT) * StepPegDrop(s)) \div BP
    /\ \A i \in 1..(Len(RecordedSteps) - 1) :
         LET s == RecordedSteps[i]
             n == RecordedSteps[i + 1]
         IN  /\ n.debt_liquidated = Min(s.at_risk_debt, s.total_debt)
             /\ n.collateral_seized =
                  (n.debt_liquidated * (BP + cfg.liquidation_bonus)) \div s.collateral_price

\* A second round fed by a positive at-risk debt smaller than the debt left.
C8_Witness ==
    /\ Len(RecordedSteps) >= 2
    /\ RecordedSteps[1].at_risk_debt > 0
    /\ RecordedSteps[1].at_risk_debt < RecordedSteps[1].total_debt
    /\ RecordedSteps[2].debt_liquidated = RecordedSteps[1].at_risk_debt
    /\ RecordedSteps[2].at_risk_debt > 0

\* C9: the totals are the sums over the steps, total_debt_liquidated is the
\* pool debt minus the last step's remaining debt, remaining debt is >= 0
\* and non-increasing, steps are numbered 1, 2, ..., and final_utilization
\* is the last step's utilization (the pool's when there is no step).
C9_ResultAggregates ==
    CascadeReturned =>
        LET r == last.result
            st == r.steps
            n == Len(st)
        IN  /\ r.total_debt_liquidated = SumField(st, "debt_liquidated")
            /\ r.total_debt_liquidated =
                 IF n = 0 THEN 0 ELSE pool.total_debt - st[n].total_debt
            /\ r.total_collateral_seized = SumField(st, "collateral_seized")
            /\ \A i \in 1..n : st[i].total_debt >= 0 /\ st[i].step = i
            /\ \A i \in 2..n : st[i].total_debt <= st[i - 1].total_debt
            /\ r.final_utilization =
                 IF n = 0 THEN PoolUtilization(pool) ELSE st[n].utilization

\* A result with three steps, each of which liquidated debt.
C9_Witness ==
    /\ CascadeReturned
    /\ Len(last.result.steps) = 3
    /\ \A i \in 1..3 : last.result.steps[i].debt_liquidated > 0
    /\ last.result.steps[3].total_debt < last.result.steps[2].total_debt
    /\ last.result.total_debt_liquidated < pool.total_debt
    /\ last.result.total_collateral_seized > 0

\* =====================================================================
\* Properties of run_monte_carlo
\* =====================================================================
McReturned == mpc = "done"

\* The first step (index 1 = step 0) at which the returned hf is below 1.0.
ResultFirstBreach ==
    CHOOSE t \in 1..Len(mcres.hf_paths) :
        /\ mcres.hf_paths[t] < HFOne
        /\ \A s \in 1..(t - 1) : mcres.hf_paths[s] >= HFOne

\* C1: for a liquidated path, pnl, collateral value, hf and (with peg
\* dynamics) peg are constant from the first step with hf < 1.0 on, and
\* terminal_pnl is the pnl of that step.
C1_FrozenAfterBreach ==
    (McReturned /\ mcres.liquidated) =>
        /\ \E t \in 1..Len(mcres.hf_paths) : mcres.hf_paths[t] < HFOne
        /\ LET ts == ResultFirstBreach
           IN  /\ \A t \in ts..NSteps :
                    /\ mcres.pnl_paths[t] = mcres.pnl_paths[ts]
                    /\ mcres.collateral_value_paths[t] = mcres.collateral_value_paths[ts]
                    /\ mcres.hf_paths[t] = mcres.hf_paths[ts]
                    /\ mcin.peg_params.enabled =>
                         mcres.peg_paths[t] = mcres.peg_paths[ts]
               /\ mcres.terminal_pnl = mcres.pnl_paths[ts]

\* A path with peg dynamics liquidated at step 1, with a slashing jump drawn
\* for a later step.
C1_Witness ==
    /\ McReturned
    /\ mcres.liquidated
    /\ mcin.peg_params.enabled
    /\ ResultFirstBreach = 2
    /\ \E t \in 2..Len(noise) : noise[t].jump = 1
    /\ mcres.hf_paths[1] >= HFOne
    /\ mcres.terminal_pnl < 0

\* C2: liquidated is true iff hf is strictly below 1.0 at some step of the
\* returned path, step 0 included.
C2_LiquidatedIffBelow ==
    mpc \in {"pnl", "done"} =>
        (mcres.liquidated <=> \E t \in 1..Len(hf_paths) : hf_paths[t] < HFOne)

\* A returned path whose hf is exactly 1.0 at every step and is not flagged.
C2_Witness ==
    /\ McReturned
    /\ ~mcres.liquidated
    /\ \A t \in 1..NSteps :
         collateral_paths[t] * mcin.liquidation_threshold = debt_paths[t] * HFOne

\* C10: every returned utilization is the clamped OU step taken from the
\* returned (clamped) utilization of the step before.
C10_ClampedAfterEachStep ==
    mpc \in {"balances", "detect", "pnl", "done"} =>
        \A t \in 2..Len(util_paths) :
            util_paths[t] =
                Clip(OUStep(mcin.ou_params, util_paths[t - 1], noise[t - 1].z0), 0, BP)


\* =====================================================================
\* Properties of the interest rate curve
\* =====================================================================
RatesReturned == fpc = "return" /\ "rate_paths" \in DOMAIN fout

KinkInside(p) == 0 < p.optimal_utilization /\ p.optimal_utilization < BP

\* C11: for a rate curve with 0 < optimal_utilization < 1, the vectorised
\* formula applied to utilizations in [0,1] returns the scalar model's borrow
\* rate, so every entry of rate_paths is the scalar rate at the same entry
\* of utilization_paths (which the engine has clipped into [0,1]).
C11_VectorizedMatchesScalar ==
    (RatesReturned /\ KinkInside(fin.p)) =>
        /\ Len(fout.rate_paths) = Len(fout.utilization_paths)
        /\ \A t \in 1..Len(fout.utilization_paths) :
              /\ fout.utilization_paths[t] \in 0..BP
              /\ fout.rate_paths[t]
                   = variable_borrow_rate(fin.p, fout.utilization_paths[t])
        /\ (fin.u1 \in 0..BP) => fout.rate_paths[1] = fout.rate1
        /\ (fin.u2 \in 0..BP) => fout.rate_paths[2] = fout.rate2

\* Utilization exactly at the kink and utilization 1.0 above it, both rates
\* of the default curve agreeing with the scalar model.
C11_Witness ==
    /\ RatesReturned
    /\ fin.p.optimal_utilization = 9200
    /\ fin.u1 = 9200 /\ fin.u2 = BP
    /\ fout.rate_paths = <<270, 4270>>
    /\ fout.rate1 = 270 /\ fout.rate2 = 4270

\* C14: for 0 < optimal_utilization < 1 the below-kink and the above-kink
\* formulas both give base_rate + slope1 at u = optimal_utilization, which is
\* the rate returned there, and the rate one basis point to either side of
\* the kink differs from it by no more than one step of the adjacent slope.
C14_ContinuousAtKink ==
    (RatesReturned /\ KinkInside(fin.p)) =>
        LET p == fin.p
            k == p.optimal_utilization
        IN  /\ fout.below_at_kink = p.base_rate + p.slope1
            /\ fout.above_at_kink = p.base_rate + p.slope1
            /\ fout.rate_at_kink = p.base_rate + p.slope1
            /\ fout.rate_at_kink - fout.rate_under_kink \in 0..(p.slope1 \div k + 1)
            /\ fout.rate_over_kink - fout.rate_at_kink
                   \in 0..(p.slope2 \div (BP - k) + 1)

\* The second curve evaluated at its kink 0.80 and one basis point above it.
C14_Witness ==
    /\ RatesReturned
    /\ fin.p.optimal_utilization = 8000 /\ fin.p.slope2 = 7500
    /\ fin.u1 = 8000 /\ fin.u2 = 8001
    /\ fout.below_at_kink = 500 /\ fout.above_at_kink = 500
    /\ fout.rate1 = 500 /\ fout.rate2 = 503

\* C15: variable_borrow_rate is non-decreasing in its input over all inputs
\* (also across the kink, outside [0,1], and with the kink at 1.0); inputs
\* below 0 give rate(0) = base_rate, inputs above 1 give rate(1), and every
\* rate lies in [base_rate, base_rate + slope1 + slope2].
C15_MonotoneAndBounded ==
    RatesReturned =>
        LET p == fin.p IN
        /\ (fin.u1 < fin.u2) => fout.rate1 <= fout.rate2
        /\ fout.rate_at_zero = p.base_rate
        /\ (fin.u1 < 0) => fout.rate1 = fout.rate_at_zero
        /\ (fin.u1 > BP) => fout.rate1 = fout.rate_at_one
        /\ fout.rate1 >= p.base_rate
        /\ fout.rate1 <= p.base_rate + p.slope1 + p.slope2

\* A negative input against an input above 1.0 on the curve whose kink is at
\* 1.0: base_rate against base_rate + slope1.
C15_Witness ==
    /\ RatesReturned
    /\ fin.p.optimal_utilization = BP
    /\ fin.u1 = -500 /\ fin.u2 = 12000
    /\ fout.rate1 = 50 /\ fout.rate2 = 350


\* =====================================================================
\* The pool-level arrays of a liquidated path
\* =====================================================================
\* Not true of the code: the freeze covers utilization_paths and rate_paths.
C13_AllArraysFrozen ==
    (McReturned /\ mcres.liquidated) =>
        LET ts == ResultFirstBreach
        IN  \A t \in ts..NSteps :
              /\ mcres.utilization_paths[t] = mcres.utilization_paths[ts]
              /\ mcres.rate_paths[t] = mcres.rate_paths[ts]

\* C13: once a path is liquidated at first-breach step t, the position's
\* arrays (pnl, collateral value, hf and, with peg dynamics, peg) are frozen
\* from t on, while utilization_paths and rate_paths are not touched by the
\* freeze: they are the clipped simulated utilization of every step and the
\* borrow rate at that utilization, before and after t.
C13_PositionFrozenPoolPathsKept ==
    (McReturned /\ mcres.liquidated) =>
        LET ts == ResultFirstBreach
        IN  /\ \A t \in ts..NSteps :
                  /\ mcres.pnl_paths[t] = mcres.pnl_paths[ts]
                  /\ mcres.collateral_value_paths[t] = mcres.collateral_value_paths[ts]
                  /\ mcres.hf_paths[t] = mcres.hf_paths[ts]
                  /\ mcin.peg_params.enabled =>
                       mcres.peg_paths[t] = mcres.peg_paths[ts]
            /\ mcres.utilization_paths
                 = simulate_utilization_paths(mcin.ou_params, mcin.u0, noise)
            /\ \A t \in 1..NSteps :
                  mcres.rate_paths[t]
                    = variable_borrow_rate(mcin.rate, mcres.utilization_paths[t])

\* A path liquidated at step 1 whose utilization and borrow rate keep
\* moving at steps 2 and 3.
C13_Witness ==
    /\ McReturned
    /\ mcres.liquidated
    /\ ResultFirstBreach = 2
    /\ mcres.utilization_paths[3] # mcres.utilization_paths[2]
    /\ mcres.rate_paths[3] # mcres.rate_paths[2]
    /\ mcres.rate_paths[4] # mcres.rate_paths[3]
    /\ mcres.collateral_value_paths[3] = mcres.collateral_value_paths[2]


\* =====================================================================
\* Reproducibility of seeded runs
\* =====================================================================
RunsOf(h) == {i \in DOMAIN h : h[i].op = "run_monte_carlo"}

\* C12: any two run_monte_carlo calls with the same arguments and the same
\* seed return the same terminal_pnl, peg_paths and liquidated flag, whatever
\* calls were made before or between them; the caller's own generator is
\* moved only by the simulate_utilization_paths calls it was passed to.
C12_SeededRunsAgree ==
    /\ \A i, j \in RunsOf(history) :
          (history[i].args = history[j].args /\ history[i].seed = history[j].seed) =>
              /\ history[i].terminal_pnl = history[j].terminal_pnl
              /\ history[i].peg_paths = history[j].peg_paths
              /\ history[i].liquidated = history[j].liquidated
    /\ (history # <<>>) =>
          caller_rng.pos =
              Horizon * Cardinality({i \in DOMAIN history :
                                       history[i].op = "simulate_utilization_paths"})

\* Two runs with peg dynamics and seed 42, a simulate_utilization_paths call
\* on the caller's generator between them; the runs agree on a non-zero
\* terminal_pnl.
C12_Witness ==
    /\ Len(history) = 3
    /\ history[1].op = "run_monte_carlo"
    /\ history[2].op = "simulate_utilization_paths"
    /\ history[3].op = "run_monte_carlo"
    /\ history[1].args = history[3].args
    /\ history[1].args.peg_params.enabled
    /\ history[1].seed = 42 /\ history[3].seed = 42
    /\ history[1].terminal_pnl = history[3].terminal_pnl
    /\ history[1].terminal_pnl # 0
    /\ Len(history[3].peg_paths) = Horizon + 1
    /\ caller_rng.pos = Horizon


\* =====================================================================
\* Properties of LiquidationModel
\* =====================================================================
LiqReturned == fpc = "return" /\ "liquidation_price_drop" \in DOMAIN fout

\* The fraction of debt liquidated at health factor hf, as stated.
StatedCloseFactor(hf) ==
    IF RGe(hf, ROne) THEN RZero
    ELSE IF RGe(hf, Rat(95, 100)) /\ RLt(hf, ROne) THEN Rat(1, 2)
    ELSE ROne

\* C16: close_factor(hf) is 0 for hf >= 1.0, 0.5 for 0.95 <= hf < 1.0 (0.95
\* included) and 1.0 below 0.95; a round of simulate_cascade_with_positions
\* liquidates of every position that fraction of its debt at the health
\* factor recomputed at the current price (nothing unless it is at risk).
C16_CloseFactor ==
    LiqReturned =>
        /\ RGe(fin.hf, ROne) => fout.close_factor = RZero
        /\ (RGe(fin.hf, Rat(95, 100)) /\ RLt(fin.hf, ROne)) =>
               fout.close_factor = Rat(1, 2)
        /\ RLt(fin.hf, Rat(95, 100)) => fout.close_factor = ROne
        /\ fout.at_risk <=> RLt(fout.position_hf, ROne)
        /\ fout.debt_to_liq = RMul(fin.debt_value, close_factor(fout.position_hf))
        /\ fout.debt_to_liq = RMul(fin.debt_value, StatedCloseFactor(fout.position_hf))

\* close_factor called at exactly 0.95, and a position of 190 wstETH with
\* 166 WETH of debt at price 1.0 and threshold 0.83 (health factor exactly
\* 0.95) losing half of its debt.
C16_Witness ==
    /\ LiqReturned
    /\ fin.hf = Rat(95, 100) /\ fout.close_factor = Rat(1, 2)
    /\ fout.position_hf = Rat(95, 100)
    /\ fout.at_risk
    /\ fin.debt_value = RInt(166) /\ fout.debt_to_liq = RInt(83)

ShockReturned == fpc = "return" /\ "shock1" \in DOMAIN fout

\* C19: two scenarios with the same steth_peg applied to the same position
\* give the same ShockResult (hf_before, hf_after, collateral_before,
\* collateral_after, pnl_impact, is_liquidated), whatever their
\* eth_price_change, utilization_shock and duration_days.
C19_OnlyPegMatters ==
    (ShockReturned /\ fin.scenario1.steth_peg = fin.scenario2.steth_peg) =>
        /\ fout.shock1.hf_before = fout.shock2.hf_before
        /\ fout.shock1.hf_after = fout.shock2.hf_after
        /\ fout.shock1.collateral_before = fout.shock2.collateral_before
        /\ fout.shock1.collateral_after = fout.shock2.collateral_after
        /\ fout.shock1.pnl_impact = fout.shock2.pnl_impact
        /\ fout.shock1.is_liquidated = fout.shock2.is_liquidated

\* The severe scenario (ETH -60%, utilization 0.99, 7 days) and a custom one
\* (ETH +20%, utilization 0.44, 1 day), both with peg 0.75, liquidating the
\* reference position.
C19_Witness ==
    /\ ShockReturned
    /\ fin.scenario1.name = "Severe" /\ fin.scenario2.name = "Custom A"
    /\ fin.scenario1.eth_price_change # fin.scenario2.eth_price_change
    /\ fin.scenario1.utilization_shock # fin.scenario2.utilization_shock
    /\ fin.scenario1.duration_days # fin.scenario2.duration_days
    /\ fin.position.debt_amount = RInt(10500)
    /\ fout.shock1 = fout.shock2
    /\ fout.shock1.is_liquidated
    /\ RLt(fout.shock1.pnl_impact, RZero)

\* A non-negative value rounded to four decimal places, in units of 0.0001.
Round4(x) == (2 * 10000 * x.n + x.d) \div (2 * x.d)

\* The reference position on the static provider at peg 1.0, with the
\* severe scenario (peg 0.75) applied first.
ReferenceShock ==
    /\ ShockReturned
    /\ fin.position = [collateral_amount |-> RInt(12000), debt_amount |-> RInt(10500),
                        emode_enabled |-> TRUE]
    /\ fin.provider = StaticDataProvider
    /\ fin.current_peg = ROne
    /\ fin.scenario1.name = "Severe"

\* Not true of the code: the health factors are 1.2907 and 0.9680.
C20_ReferenceValuesAsStated ==
    ReferenceShock =>
        /\ Round4(fout.vault_hf) = 12907
        /\ Round4(fout.shock1.hf_after) = 9680
        /\ fout.shock1.is_liquidated

\* C20: for the reference position (12000 wstETH at 1.18, debt 10500,
\* E-mode threshold 0.955) the health factor at peg 1.0 is 1.2879 to four
\* decimal places, and after a depeg to 0.75 apply_scenario computes 0.9659
\* to four decimal places, below 1.0, and reports the position liquidated.
C20_ReferenceValues ==
    ReferenceShock =>
        /\ Round4(fout.vault_hf) = 12879
        /\ fout.shock1.hf_before = fout.vault_hf
        /\ Round4(fout.shock1.hf_after) = 9659
        /\ RLt(fout.shock1.hf_after, ROne)
        /\ fout.shock1.is_liquidated

C20_Witness ==
    /\ ReferenceShock
    /\ fout.vault_hf = Rat(11269, 8750)
    /\ fout.shock1.hf_after = Rat(33807, 35000)
    /\ fout.shock1.collateral_after = RInt(10620)
    /\ fout.shock1.is_liquidated


\* =====================================================================
\* Utilization returned by the PoolModel simulations
\* =====================================================================
WithdrawalReturned == last.op = "simulate_withdrawal"

\* Not true of the code: a withdrawal never lowers the reported utilization,
\* whatever the pool state.
C23_WithdrawalNeverLowers ==
    WithdrawalReturned =>
        /\ last.result.utilization_after >= last.result.utilization_before
        /\ last.result.utilization_after <= BP
        /\ (last.arg >= pool.total_supply) => last.result.utilization_after = BP

\* C23: for total_supply >= 0, total_debt >= 0 and amount >= 0,
\* simulate_withdrawal returns utilization_after <= 1.0, equal to 1.0 whenever
\* amount >= total_supply, and at least min(1.0, utilization_before); it is
\* at least utilization_before when total_debt <= total_supply, and it is 1.0,
\* below utilization_before, when total_debt > total_supply > 0.
C23_WithdrawalUtilization ==
    WithdrawalReturned =>
        LET r == last.result IN
        /\ r.utilization_after <= BP
        /\ (last.arg >= pool.total_supply) => r.utilization_after = BP
        /\ r.utilization_after >= Min(BP, r.utilization_before)
        /\ (pool.total_debt <= pool.total_supply) =>
               r.utilization_after >= r.utilization_before
        /\ (pool.total_debt > pool.total_supply /\ pool.total_supply > 0) =>
               (r.utilization_before > BP /\ r.utilization_after = BP)

\* A partial withdrawal that raises utilization of a pool with debt below
\* supply, without reaching 1.0.
C23_Witness ==
    /\ WithdrawalReturned
    /\ pool.total_supply = 2800 /\ pool.total_debt = 2200
    /\ last.arg = 500
    /\ last.result.utilization_after > last.result.utilization_before
    /\ last.result.utilization_after < BP

PoolCallReturned ==
    last.op \in {"simulate_borrow", "simulate_withdrawal", "simulate_liquidation_impact"}

WithinSupply == 0 <= pool.total_debt /\ pool.total_debt <= pool.total_supply

\* Not true of the code: with 0 <= total_debt <= total_supply every
\* simulation returns a utilization_after in [0,1].
C28_UtilizationAfterInUnitRange ==
    (PoolCallReturned /\ WithinSupply /\ last.arg >= 0) =>
        last.result.utilization_after \in 0..BP

\* C28: with 0 <= total_debt <= total_supply and amount >= 0,
\* simulate_withdrawal and simulate_liquidation_impact return a
\* utilization_after in [0,1]; simulate_borrow returns
\* (total_debt + amount) / total_supply without a cap (0 for an empty pool),
\* which is in [0,1] exactly when amount <= total_supply - total_debt.
C28_UtilizationAfterRange ==
    (PoolCallReturned /\ WithinSupply /\ last.arg >= 0) =>
        LET u_after == last.result.utilization_after IN
        /\ u_after >= 0
        /\ (last.op # "simulate_borrow") => u_after <= BP
        /\ (last.op = "simulate_borrow") =>
              /\ (pool.total_supply = 0) => u_after = 0
              /\ (pool.total_supply > 0) =>
                    /\ u_after = ((pool.total_debt + last.arg) * BP) \div pool.total_supply
                    /\ (u_after <= BP) <=>
                          (last.arg <= pool.total_supply - pool.total_debt)

\* A borrow of more than the available liquidity: utilization above 1.0.
C28_Witness ==
    /\ last.op = "simulate_borrow"
    /\ pool.total_supply = 2800 /\ pool.total_debt = 2200
    /\ last.arg = 3000
    /\ last.result.utilization_after > BP


\* The pool debt remaining when round i of the recorded cascade starts.
RemainingDebtBefore(st, i) ==
    IF i = 1 THEN pool.total_debt ELSE st[i - 1].total_debt

\* C29 (as stated): with a positive stop threshold every recorded step
\* liquidates at least min_debt_threshold.
C29_EveryStepAtLeastThreshold ==
    (pool.total_debt >= 0 /\ cfg.min_debt_threshold > 0) =>
        \A i \in 1..Len(RecordedSteps) :
            RecordedSteps[i].debt_liquidated >= cfg.min_debt_threshold

\* C29 (amended): the threshold is tested on the debt requested for the
\* round, before that request is capped at the remaining pool debt: every
\* recorded step has a request of at least min_debt_threshold and
\* liquidates min(request, remaining debt), which reaches the threshold
\* exactly when the remaining debt does.
C29_RequestAtLeastThreshold ==
    (pool.total_debt >= 0 /\ cfg.min_debt_threshold > 0) =>
        \A i \in 1..Len(RecordedSteps) :
            LET st == RecordedSteps
                req == RequestedDebt(st, cfg, i)
                rem == RemainingDebtBefore(st, i)
            IN  /\ req >= cfg.min_debt_threshold
                /\ st[i].debt_liquidated = Min(req, rem)
                /\ st[i].debt_liquidated >= 0
                /\ (st[i].debt_liquidated >= cfg.min_debt_threshold)
                       <=> (rem >= cfg.min_debt_threshold)

\* A returned cascade on a pool without debt: the request passed the
\* threshold and the recorded step liquidated nothing.
C29_Witness ==
    /\ CascadeReturned
    /\ cfg.min_debt_threshold > 0
    /\ pool.total_debt = 0
    /\ Len(last.result.steps) = 1
    /\ cfg.initial_debt_to_liquidate >= cfg.min_debt_threshold
    /\ last.result.steps[1].debt_liquidated = 0


\* ---------------------------------------------------------------------
\* Value-at-Risk (stress/var.py), in exact arithmetic
\* ---------------------------------------------------------------------
MaxSamples == 3
MaxScenarios == 2

RNaN == [n |-> 0, d |-> 0]

RECURSIVE InsertSorted(_, _)
InsertSorted(x, sorted) ==
    IF sorted = <<>> THEN <<x>>
    ELSE IF x <= Head(sorted) THEN <<x>> \o sorted
    ELSE <<Head(sorted)>> \o InsertSorted(x, Tail(sorted))

RECURSIVE SortedCopy(_)
SortedCopy(a) == IF a = <<>> THEN <<>> ELSE InsertSorted(Head(a), SortedCopy(Tail(a)))

RECURSIVE SumSeq(_)
SumSeq(a) == IF a = <<>> THEN 0 ELSE Head(a) + SumSeq(Tail(a))

\* np.percentile(a, q), default linear interpolation between the two order
\* statistics around the virtual index (n - 1) * q / 100.
Percentile(a, q) ==
    LET sorted == SortedCopy(a)
        n == Len(sorted)
        h == (n - 1) * q
        lo == h \div PCT
        fr == h % PCT
        x == sorted[lo + 1]
        y == sorted[Min(lo + 2, n)]
    IN  Rat(x * PCT + fr * (y - x), PCT)

\* pnl[pnl <= var]
TailAbove(pnl, var) == SelectSeq(pnl, LAMBDA v : RGe(RInt(v), var))

TailAtOrBelow(pnl, var) == SelectSeq(pnl, LAMBDA v : RLe(RInt(v), var))

\* np.mean of a non-empty array; np.min
MeanOf(a) == Rat(SumSeq(a), Len(a))

MinOf(a) == SortedCopy(a)[1]

\* The four tail metrics, computed the same way by both entry points.
TailMetrics(pnl) ==
    LET var_95 == Percentile(pnl, 5)
        var_99 == Percentile(pnl, 1)
        tail_95 == TailAtOrBelow(pnl, var_95)
        tail_99 == TailAtOrBelow(pnl, var_99)
    IN  [var_95 |-> var_95,
         var_99 |-> var_99,
         cvar_95 |-> IF Len(tail_95) > 0 THEN MeanOf(tail_95) ELSE var_95,
         cvar_99 |-> IF Len(tail_99) > 0 THEN MeanOf(tail_99) ELSE var_99,
         max_loss |-> RInt(MinOf(pnl))]

\* np.mean of a boolean array
FractionTrue(flags) ==
    Rat(Cardinality({k \in 1..Len(flags) : flags[k]}), Len(flags))

compute_var(mc_result) ==
    LET m == TailMetrics(mc_result.terminal_pnl)
    IN  [var_95 |-> m.var_95, var_99 |-> m.var_99,
         cvar_95 |-> m.cvar_95, cvar_99 |-> m.cvar_99,
         liquidation_prob |-> FractionTrue(mc_result.liquidated),
         max_loss |-> m.max_loss]

\* An optional array argument: None, or the array.
NoneArray == [is_none |-> TRUE, a |-> <<>>]
SomeArray(a) == [is_none |-> FALSE, a |-> a]

\* One element of (stressed_collateral_array * liquidation_threshold) /
\* stressed_debt_array: a zero debt gives inf, or nan for 0 / 0.
ScenarioHf(collateral, liquidation_threshold, debt) ==
    IF debt = 0
    THEN IF collateral = 0 THEN RNaN ELSE RInf
    ELSE RDiv(RMul(RInt(collateral), liquidation_threshold), RInt(debt))

\* A P&L-magnitude estimate used when the arrays are missing.
ScenarioLiquidationProbProxy(pnl_array, collateral_value, debt_value, liquidation_threshold, stressed_collateral_array, stressed_debt_array) ==
    IF ~stressed_collateral_array.is_none /\ ~stressed_debt_array.is_none
    THEN FractionTrue([k \in 1..Len(stressed_collateral_array.a) |->
                          RLt(ScenarioHf(stressed_collateral_array.a[k],
                                         liquidation_threshold,
                                         stressed_debt_array.a[k]), ROne)])
    ELSE FractionTrue([k \in 1..Len(pnl_array) |->
                          RLt(RMul(RInt(collateral_value + pnl_array[k]),
                                   liquidation_threshold), RInt(debt_value))])

ScenarioLiquidationProb(pnl_array, collateral_value, debt_value, liquidation_threshold, stressed_collateral_array, stressed_debt_array) ==
    IF ~stressed_collateral_array.is_none /\ ~stressed_debt_array.is_none
    THEN FractionTrue([k \in 1..Len(stressed_collateral_array.a) |->
                          RLt(ScenarioHf(stressed_collateral_array.a[k],
                                         liquidation_threshold,
                                         stressed_debt_array.a[k]), ROne)])
    ELSE RZero

compute_var_from_scenarios(pnl_array, collateral_value, debt_value, liquidation_threshold, stressed_collateral_array, stressed_debt_array) ==
    LET m == TailMetrics(pnl_array)
    IN  [var_95 |-> m.var_95, var_99 |-> m.var_99,
         cvar_95 |-> m.cvar_95, cvar_99 |-> m.cvar_99,
         liquidation_prob |->
             ScenarioLiquidationProb(pnl_array, collateral_value, debt_value,
                                     liquidation_threshold,
                                     stressed_collateral_array,
                                     stressed_debt_array),
         max_loss |-> m.max_loss]

\* P&L samples: every sample of up to MaxSamples values, and two longer
\* ones whose 5th percentile lies beyond the second order statistic.
PnlValues == {-300, -100, 50}

SeqsUpTo(S, n) == UNION {[1..k -> S] : k \in 1..n}

LongSamples ==
    {[k \in 1..21 |-> (k - 11) * 10],
     [k \in 1..41 |-> IF k % 2 = 0 THEN -5 * k ELSE 3 * k]}

PnlSamples == SeqsUpTo(PnlValues, MaxSamples) \cup LongSamples

McResults ==
    UNION {[terminal_pnl : {pnl}, liquidated : [1..Len(pnl) -> BOOLEAN]] :
               pnl \in SeqsUpTo(PnlValues, MaxSamples)}
    \cup {[terminal_pnl |-> pnl, liquidated |-> [k \in 1..Len(pnl) |-> k % 3 = 0]] :
               pnl \in LongSamples}

\* Per-scenario (stressed collateral, stressed debt) pairs.
ScenarioPairs == {<<10000, 9000>>, <<10000, 12000>>, <<10000, 9550>>, <<10000, 0>>}

StressedArrays ==
    {<<NoneArray, NoneArray>>}
    \cup UNION {{<<SomeArray([k \in 1..Len(sc) |-> sc[k][1]]),
                   SomeArray([k \in 1..Len(sc) |-> sc[k][2]])>>,
                 <<SomeArray([k \in 1..Len(sc) |-> sc[k][1]]), NoneArray>>,
                 <<NoneArray, SomeArray([k \in 1..Len(sc) |-> sc[k][2]])>>} :
                    sc \in SeqsUpTo(ScenarioPairs, MaxScenarios)}

ScalarValues == {<<0, 0>>, <<1000, 900>>}

VarThresholds == {Rat(955, 1000), Rat(83, 100)}

VarInputs ==
    {[fn |-> "compute_var", mc_result |-> r] : r \in McResults}
    \cup {[fn |-> "compute_var_from_scenarios",
           pnl_array |-> pnl,
           collateral_value |-> sv[1],
           debt_value |-> sv[2],
           liquidation_threshold |-> lt,
           stressed_collateral_array |-> arrs[1],
           stressed_debt_array |-> arrs[2]] :
              pnl \in PnlSamples, sv \in ScalarValues, lt \in VarThresholds,
              arrs \in StressedArrays}

InitVar ==
    /\ fpc = "call"
    /\ fin \in VarInputs
    /\ fout = <<>>
    /\ PoolIdle
    /\ McIdle
    /\ SeedIdle
    /\ ProvIdle
    /\ PosIdle

ComputeVar ==
    /\ fpc = "call"
    /\ fin.fn = "compute_var"
    /\ fout' = compute_var(fin.mc_result)
    /\ fpc' = "return"
    /\ UNCHANGED <<fin, poolVars, mcVars, seedVars, provVars, posVars>>

ComputeVarFromScenarios ==
    /\ fpc = "call"
    /\ fin.fn = "compute_var_from_scenarios"
    /\ fout' = compute_var_from_scenarios(fin.pnl_array, fin.collateral_value,
                                          fin.debt_value,
                                          fin.liquidation_threshold,
                                          fin.stressed_collateral_array,
                                          fin.stressed_debt_array)
    /\ fpc' = "return"
    /\ UNCHANGED <<fin, poolVars, mcVars, seedVars, provVars, posVars>>

NextVar == ComputeVar \/ ComputeVarFromScenarios

SpecVar == InitVar /\ [][NextVar]_vars

VarReturned == fpc = "return" /\ "var_95" \in DOMAIN fout

\* The P&L sample of the call that returned.
VarSample ==
    IF fin.fn = "compute_var" THEN fin.mc_result.terminal_pnl ELSE fin.pnl_array

SensitivityPoints == 4

max_borrowable(self, collateral_value) == RMul(collateral_value, self.ltv)

\* np.linspace(start, stop, n_points)
Linspace(start, stop, n_points) ==
    [k \in 1..n_points |->
        IF n_points = 1 THEN start
        ELSE Rat(start.n * stop.d * (n_points - k) + stop.n * start.d * (k - 1),
                 start.d * stop.d * (n_points - 1))]

depeg_sensitivity(self, collateral_amount, collateral_price, debt_value, peg_range, n_points) ==
    LET pegs == Linspace(peg_range[1], peg_range[2], n_points)
    IN  [k \in 1..n_points |->
            [peg_ratio |-> pegs[k],
             health_factor |->
                 health_factor(self,
                               RMul(RMul(collateral_amount, collateral_price), pegs[k]),
                               debt_value)]]

DefaultPegRange == <<Rat(85, 100), ROne>>

DomainCollateralAmounts == {RZero, RInt(100), RInt(12000)}
DomainDebtValues == {RZero, RInt(50), RInt(10500)}

DomainInputs ==
    [self : LiquidationModels, collateral_amount : DomainCollateralAmounts,
     collateral_price : CollateralPrices, debt_value : DomainDebtValues,
     hf : HealthFactors]

InitDomain ==
    /\ fpc = "call"
    /\ fin \in DomainInputs
    /\ fout = <<>>
    /\ PoolIdle
    /\ McIdle
    /\ SeedIdle
    /\ ProvIdle
    /\ PosIdle

CallEveryMethod ==
    /\ fpc = "call"
    /\ LET self == fin.self
           collateral_value == RMul(fin.collateral_amount, fin.collateral_price)
       IN  fout' =
               [methods |->
                   [health_factor |->
                        health_factor(self, collateral_value, fin.debt_value),
                    close_factor |-> close_factor(fin.hf),
                    max_borrowable |-> max_borrowable(self, collateral_value),
                    liquidation_price_drop |->
                        liquidation_price_drop(self, collateral_value, fin.debt_value),
                    depeg_to_liquidation |->
                        depeg_to_liquidation(self, fin.collateral_amount,
                                             fin.collateral_price, fin.debt_value),
                    depeg_sensitivity |->
                        depeg_sensitivity(self, fin.collateral_amount,
                                          fin.collateral_price, fin.debt_value,
                                          DefaultPegRange, SensitivityPoints)]]
    /\ fpc' = "return"
    /\ UNCHANGED <<fin, poolVars, mcVars, seedVars, provVars, posVars>>

NextDomain == CallEveryMethod

SpecDomain == InitDomain /\ [][NextDomain]_vars

DomainReturned == fpc = "return" /\ "methods" \in DOMAIN fout

\* C24: for collateral >= 0 (zero included), collateral_price > 0 and
\* debt_value >= 0, every LiquidationModel method returns a value and none
\* raises.
C24_TotalOverDomain ==
    DomainReturned =>
        /\ RGe(fin.collateral_amount, RZero)
        /\ RLt(RZero, fin.collateral_price)
        /\ RGe(fin.debt_value, RZero)
        /\ \A m \in DOMAIN fout.methods : fout.methods[m] # ZeroDivisionError


\* ---------------------------------------------------------------------
\* Daily P&L of the vault position (position/pnl.py)
\* ---------------------------------------------------------------------
RNegInf == [n |-> -1, d |-> 0]

RAdd(a, b) ==
    LET g == GCD(a.d, b.d)
    IN  Rat(a.n * (b.d \div g) + b.n * (a.d \div g), (a.d \div g) * b.d)

\* A rate in basis points as a fraction.
RateOf(bp) == Rat(bp, BP)

\* 365.25 as a fraction.
DaysPerYearPnl == Rat(1461, 4)

compute_apy_breakdown(position, provider, staking_apy) ==
    LET supply_apy == RateOf(supply_rate(provider.wsteth_params,
                                         PoolUtilization(provider.wsteth_state)))
        borrow_apy == RateOf(variable_borrow_rate(provider.weth_params,
                                                  PoolUtilization(provider.weth_state)))
        collateral_val == VaultCollateralValue(position, provider)
        debt_val == VaultDebtValue(position, provider)
        equity == RSub(collateral_val, debt_val)
        income == RMul(collateral_val, RAdd(staking_apy, supply_apy))
        cost == RMul(debt_val, borrow_apy)
    IN  [supply_apy |-> supply_apy,
         borrow_apy |-> borrow_apy,
         staking_apy |-> staking_apy,
         net_apy |-> IF RLe(equity, RZero) THEN RNegInf
                     ELSE RDiv(RSub(income, cost), equity)]

\* A daily P&L that is reported only for positive equity.
DailyPnlGatedOnEquity(position, provider, staking_apy) ==
    LET breakdown == compute_apy_breakdown(position, provider, staking_apy)
        collateral_val == VaultCollateralValue(position, provider)
        debt_val == VaultDebtValue(position, provider)
        income == RMul(collateral_val, RAdd(staking_apy, breakdown.supply_apy))
        cost == RMul(debt_val, breakdown.borrow_apy)
    IN  IF RLe(RSub(collateral_val, debt_val), RZero) THEN RZero
        ELSE RDiv(RSub(income, cost), DaysPerYearPnl)

daily_pnl(position, provider, staking_apy) ==
    LET breakdown == compute_apy_breakdown(position, provider, staking_apy)
        collateral_val == VaultCollateralValue(position, provider)
        debt_val == VaultDebtValue(position, provider)
        income == RMul(collateral_val, RAdd(staking_apy, breakdown.supply_apy))
        cost == RMul(debt_val, breakdown.borrow_apy)
    IN  RDiv(RSub(income, cost), DaysPerYearPnl)

\* Provider states: oracle prices and the two reserves' rate parameters
\* and pool states.
PnlProviders ==
    [price_wsteth : {ROne, Rat(118, 100)},
     price_weth : {ROne},
     wsteth_params : {[optimal_utilization |-> 4500, base_rate |-> 0,
                       slope1 |-> 700, slope2 |-> 30000, reserve_factor |-> 1500]},
     wsteth_state : {[total_supply |-> 1000, total_debt |-> 0],
                     [total_supply |-> 1000, total_debt |-> 500]},
     weth_params : RateParamSets,
     weth_state : {[total_supply |-> 2800, total_debt |-> 0],
                   [total_supply |-> 2800, total_debt |-> 2200],
                   [total_supply |-> 2800, total_debt |-> 2700]}]

PnlPositions ==
    [collateral_amount : {RZero, RInt(100), RInt(1000)},
     debt_amount : {RZero, RInt(118), RInt(200), RInt(50000)},
     emode_enabled : {TRUE}]

StakingApys == {RZero, Rat(35, 1000), Rat(1, 10)}

PnlInputs == [position : PnlPositions, provider : PnlProviders, staking_apy : StakingApys]

InitPnl ==
    /\ fpc = "call"
    /\ fin \in PnlInputs
    /\ fout = <<>>
    /\ PoolIdle
    /\ McIdle
    /\ SeedIdle
    /\ ProvIdle
    /\ PosIdle

DailyPnl ==
    /\ fpc = "call"
    /\ fout' = [daily_pnl |-> daily_pnl(fin.position, fin.provider, fin.staking_apy),
                breakdown |-> compute_apy_breakdown(fin.position, fin.provider,
                                                    fin.staking_apy)]
    /\ fpc' = "return"
    /\ UNCHANGED <<fin, poolVars, mcVars, seedVars, provVars, posVars>>

NextPnl == DailyPnl

SpecPnl == InitPnl /\ [][NextPnl]_vars

PnlReturned == fpc = "return" /\ "daily_pnl" \in DOMAIN fout

\* The position of the returned call is underwater: equity <= 0 with debt.
Underwater ==
    LET cv == VaultCollateralValue(fin.position, fin.provider)
        dv == VaultDebtValue(fin.position, fin.provider)
    IN  RLe(RSub(cv, dv), RZero) /\ RLt(RZero, dv)

MaxEvents == 3
MaxTime == 2

CacheKeys == {"reserve_params:WETH", "reserve_state:WETH"}

\* What an RPC fetch can return: the on-chain value at the time of the call.
OnChainValues == {"v1", "v2"}

\* What the fallback StaticDataProvider returns for the key.
StaticValue(cache_key) == "static"

\* A key absent from _store.
NoEntry == [ts |-> -1, value |-> "None"]

\* _TTLCache.get: the expiry test.
CacheExpiredAtTtl(entry, t, ttl) == t - entry.ts >= ttl

CacheExpired(entry, t, ttl) == t - entry.ts > ttl

\* _TTLCache.get: the value or None, and the store after the call (an
\* expired entry is deleted).
CacheGet(store, key, t, ttl) ==
    IF store[key] = NoEntry THEN [value |-> "None", store |-> store]
    ELSE IF CacheExpired(store[key], t, ttl)
    THEN [value |-> "None", store |-> [store EXCEPT ![key] = NoEntry]]
    ELSE [value |-> store[key].value, store |-> store]

CacheSet(store, key, t, value) == [store EXCEPT ![key] = [ts |-> t, value |-> value]]

CacheClear(store) == [k \in DOMAIN store |-> NoEntry]

\* OnChainDataProvider.__init__
OnChainDataProviderOf(cache_ttl, fallback) ==
    [store |-> [k \in CacheKeys |-> NoEntry],
     ttl |-> cache_ttl,
     fallback |-> fallback,
     rate_strategy_contracts |-> {}]

\* create_provider(use_onchain=True, rpc_url=...): a StaticDataProvider is
\* always passed as the fallback.
create_provider(cache_ttl) == OnChainDataProviderOf(cache_ttl, "StaticDataProvider")

\* What the fetcher does when it is called: it succeeds with a value or
\* raises, and takes some time.
FetchOutcomes == [ok : BOOLEAN, value : OnChainValues, took : 0..1]

\* _call_with_fallback: cache, then RPC, then fallback.
CallWithFallback(self, t, cache_key, fetch) ==
    LET got == CacheGet(self.store, cache_key, t, self.ttl)
        missed == [self EXCEPT !.store = got.store]
    IN  IF got.value # "None"
        THEN [self |-> self, rpc |-> FALSE, ok |-> FALSE, stored_at |-> -1,
              outcome |-> "returned", result |-> got.value, end |-> t]
        ELSE IF fetch.ok
        THEN [self |-> [missed EXCEPT !.store =
                            CacheSet(got.store, cache_key, t + fetch.took, fetch.value)],
              rpc |-> TRUE, ok |-> TRUE, stored_at |-> t + fetch.took,
              outcome |-> "returned", result |-> fetch.value, end |-> t + fetch.took]
        ELSE IF self.fallback # "None"
        THEN [self |-> missed, rpc |-> TRUE, ok |-> FALSE, stored_at |-> -1,
              outcome |-> "returned", result |-> StaticValue(cache_key),
              end |-> t + fetch.took]
        ELSE [self |-> missed, rpc |-> TRUE, ok |-> FALSE, stored_at |-> -1,
              outcome |-> "raised", result |-> "RuntimeError", end |-> t + fetch.took]

\* The history entry of a getter call.
GetEvent(cache_key, t, r) ==
    [op |-> "get", key |-> cache_key, at |-> t, rpc |-> r.rpc, ok |-> r.ok,
     stored_at |-> r.stored_at, outcome |-> r.outcome, result |-> r.result]

RefreshEvent(t) ==
    [op |-> "refresh", key |-> "", at |-> t, rpc |-> FALSE, ok |-> FALSE,
     stored_at |-> -1, outcome |-> "returned", result |-> "None"]

CacheTtls == {0, 1}

InitProvider ==
    /\ onchain \in {create_provider(ttl) : ttl \in CacheTtls}
                   \cup {OnChainDataProviderOf(ttl, "None") : ttl \in CacheTtls}
    /\ now = 0
    /\ events = <<>>
    /\ PoolIdle
    /\ McIdle
    /\ FnIdle
    /\ SeedIdle
    /\ PosIdle

\* get_reserve_state(WETH)
GetReserveState(fetch) ==
    /\ onchain # <<>>
    /\ Len(events) < MaxEvents
    /\ now + fetch.took <= MaxTime
    /\ LET r == CallWithFallback(onchain, now, "reserve_state:WETH", fetch)
       IN  /\ onchain' = r.self
           /\ now' = r.end
           /\ events' = Append(events, GetEvent("reserve_state:WETH", now, r))
    /\ UNCHANGED <<poolVars, mcVars, fnVars, seedVars, posVars>>

\* get_reserve_params(WETH): the fetcher resolves the rate strategy
\* contract first and keeps it.
GetReserveParams(fetch) ==
    /\ onchain # <<>>
    /\ Len(events) < MaxEvents
    /\ now + fetch.took <= MaxTime
    /\ LET r == CallWithFallback(onchain, now, "reserve_params:WETH", fetch)
       IN  /\ onchain' = IF r.rpc /\ r.ok
                         THEN [r.self EXCEPT !.rate_strategy_contracts = @ \cup {"WETH"}]
                         ELSE r.self
           /\ now' = r.end
           /\ events' = Append(events, GetEvent("reserve_params:WETH", now, r))
    /\ UNCHANGED <<poolVars, mcVars, fnVars, seedVars, posVars>>

\* refresh()
Refresh ==
    /\ onchain # <<>>
    /\ Len(events) < MaxEvents
    /\ onchain' = [onchain EXCEPT !.store = CacheClear(@),
                                  !.rate_strategy_contracts = {}]
    /\ events' = Append(events, RefreshEvent(now))
    /\ UNCHANGED <<now, poolVars, mcVars, fnVars, seedVars, posVars>>

\* The clock advances between calls.
Tick ==
    /\ onchain # <<>>
    /\ now < MaxTime
    /\ now' = now + 1
    /\ UNCHANGED <<onchain, events, poolVars, mcVars, fnVars, seedVars, posVars>>

NextProvider ==
    \/ \E fetch \in FetchOutcomes : GetReserveState(fetch)
    \/ \E fetch \in FetchOutcomes : GetReserveParams(fetch)
    \/ Refresh
    \/ Tick

SpecProvider == InitProvider /\ [][NextProvider]_vars

\* The getter calls among the recorded calls.
GetterCalls == {i \in 1..Len(events) : events[i].op = "get"}

\* C26: a getter whose RPC fetch failed ends in an error; none returns a
\* substitute value.
C26_FailFast ==
    \A i \in GetterCalls :
        (events[i].rpc /\ ~events[i].ok) => events[i].outcome = "raised"

\* The earlier calls whose successful fetch is still cached for call i:
\* same key, no refresh in between, age at most cache_ttl.
FreshFetches(i) ==
    {j \in GetterCalls :
        /\ j < i
        /\ events[j].key = events[i].key
        /\ events[j].rpc /\ events[j].ok
        /\ \A k \in (j + 1)..(i - 1) : events[k].op # "refresh"
        /\ events[i].at - events[j].stored_at <= onchain.ttl}

\* C27: a getter call issues its RPC fetch iff no successful fetch for
\* the key since the last refresh() is at most cache_ttl old; a cache hit
\* returns the value of that fetch; fallback values are never stored.
C27_FetchIffNoFreshEntry ==
    /\ \A i \in GetterCalls :
         /\ events[i].rpc <=> FreshFetches(i) = {}
         /\ \A j \in FreshFetches(i) :
                events[i].outcome = "returned" /\ events[i].result = events[j].result
    /\ onchain # <<>> =>
         \A k \in CacheKeys :
            onchain.store[k] # NoEntry =>
                /\ onchain.store[k].value \in OnChainValues
                /\ \E j \in GetterCalls :
                      /\ events[j].key = k
                      /\ events[j].rpc /\ events[j].ok
                      /\ events[j].stored_at = onchain.store[k].ts
                      /\ events[j].result = onchain.store[k].value

\* A successful fetch, a hit on it, and a new fetch of the same key once
\* the entry is older than cache_ttl, without any refresh.
C27_Witness ==
    /\ Len(events) = 3
    /\ \A i \in 1..3 : events[i].op = "get" /\ events[i].key = "reserve_state:WETH"
    /\ events[1].rpc /\ events[1].ok
    /\ ~events[2].rpc /\ events[2].result = events[1].result
    /\ events[3].rpc /\ events[3].ok /\ events[3].result # events[1].result
    /\ events[3].at - events[1].stored_at > onchain.ttl


\* ---------------------------------------------------------------------
\* simulate_cascade_with_positions (simulation/liquidation_cascade.py),
\* with the linear price-impact model (curve_liquidity is None)
\* ---------------------------------------------------------------------
MaxPositions == 3
MaxRounds == 3

RMin(a, b) == IF RLe(a, b) THEN a ELSE b

RECURSIVE RSumSeq(_)
RSumSeq(a) == IF a = <<>> THEN RZero ELSE RAdd(Head(a), RSumSeq(Tail(a)))

\* sorted(positions, key=lambda p: p.health_factor): a new list, stable.
RECURSIVE InsertByHealthFactor(_, _)
InsertByHealthFactor(pos, sorted) ==
    IF sorted = <<>> THEN <<pos>>
    ELSE IF RLt(pos.health_factor, Head(sorted).health_factor)
    THEN <<pos>> \o sorted
    ELSE <<Head(sorted)>> \o InsertByHealthFactor(pos, Tail(sorted))

RECURSIVE SortedByHealthFactor(_)
SortedByHealthFactor(positions) ==
    IF positions = <<>> THEN <<>>
    ELSE InsertByHealthFactor(positions[Len(positions)],
                              SortedByHealthFactor(SubSeq(positions, 1,
                                                          Len(positions) - 1)))

\* _find_at_risk_positions without the already_liquidated test.
FindAtRiskIgnoringLiquidated(positions, collateral_price, liquidation_threshold, already_liquidated) ==
    SelectSeq(positions,
              LAMBDA pos : IsAtRisk(pos, collateral_price, liquidation_threshold))

\* _find_at_risk_positions
FindAtRiskPositions(positions, collateral_price, liquidation_threshold, already_liquidated) ==
    SelectSeq(positions,
              LAMBDA pos : /\ pos.user \notin already_liquidated
                           /\ IsAtRisk(pos, collateral_price, liquidation_threshold))

\* _compute_price_impact, linear model
ComputePriceImpact(collateral_seized, price_impact_per_unit) ==
    IF RLe(collateral_seized, RZero) THEN RZero
    ELSE RMin(RMul(collateral_seized, price_impact_per_unit), Rat(99, 100))

\* current_price after a fractional drop, floored at 0.01
PriceAfterDrop(price, drop) ==
    LET q == RMul(price, RSub(ROne, drop))
    IN  IF RLt(q, Rat(1, 100)) THEN Rat(1, 100) ELSE q

\* The utilization handed to the rate model, in basis points.
UtilizationBp(debt, supply) ==
    IF supply > 0 THEN (debt.n * BP) \div (debt.d * supply) ELSE 0

\* The locals after lines 265-290.
PositionsLocals(in) ==
    [called_with |-> in,
     sorted_positions |-> SortedByHealthFactor(in.positions),
     supply |-> in.pool_state.total_supply,
     debt |-> RInt(in.pool_state.total_debt),
     current_price |-> PriceAfterDrop(in.collateral_price, in.initial_peg_shock),
     steps |-> <<>>,
     total_debt_liquidated |-> RZero,
     total_collateral_seized |-> RZero,
     already_liquidated |-> {},
     selected |-> <<>>,
     step_num |-> 0,
     result |-> <<>>]

\* What one iteration computes before its break tests (lines 294-326).
RoundSelection(l, in) ==
    LET at_risk == FindAtRiskPositions(l.sorted_positions, l.current_price,
                                       in.liquidation_threshold, l.already_liquidated)
        debts == [k \in 1..Len(at_risk) |->
                     PositionDebtToLiq(at_risk[k], l.current_price,
                                       in.liquidation_threshold)]
        seized == [k \in 1..Len(at_risk) |->
                      RDiv(RMul(debts[k], RAdd(ROne, in.liquidation_bonus)),
                           l.current_price)]
    IN  [at_risk |-> at_risk,
         users |-> {at_risk[k].user : k \in 1..Len(at_risk)},
         step_debt |-> RSumSeq(debts),
         step_collateral |-> RSumSeq(seized)]

\* The iteration goes on to record a step (range(max_steps), both breaks).
RoundRecorded(l, in) ==
    /\ l.step_num < in.max_steps
    /\ RoundSelection(l, in).at_risk # <<>>
    /\ ~RLt(RoundSelection(l, in).step_debt, RInt(in.min_debt_threshold))

\* Lines 304-373 of an iteration that records a step.
PositionsRound(l, in) ==
    LET sel == RoundSelection(l, in)
        capped == RLt(l.debt, sel.step_debt)
        step_debt == IF capped THEN l.debt ELSE sel.step_debt
        step_collateral ==
            IF capped
            THEN RDiv(RMul(step_debt, RAdd(ROne, in.liquidation_bonus)), l.current_price)
            ELSE sel.step_collateral
        debt == RSub(l.debt, step_debt)
        peg_drop == ComputePriceImpact(step_collateral, in.price_impact_per_unit)
        price == PriceAfterDrop(l.current_price, peg_drop)
        done == l.already_liquidated \cup sel.users
        utilization == UtilizationBp(debt, l.supply)
        remaining_at_risk == FindAtRiskPositions(l.sorted_positions, price,
                                                 in.liquidation_threshold, done)
        step == [step |-> l.step_num + 1,
                 debt_liquidated |-> step_debt,
                 collateral_seized |-> step_collateral,
                 total_supply |-> l.supply,
                 total_debt |-> debt,
                 utilization |-> utilization,
                 borrow_rate |-> variable_borrow_rate(in.rate_params, utilization),
                 collateral_price |-> price,
                 at_risk_debt |->
                     RSumSeq([k \in 1..Len(remaining_at_risk) |->
                                 remaining_at_risk[k].debt_weth])]
    IN  [l EXCEPT !.debt = debt,
                  !.current_price = price,
                  !.steps = Append(@, step),
                  !.total_debt_liquidated = RAdd(@, step_debt),
                  !.total_collateral_seized = RAdd(@, step_collateral),
                  !.already_liquidated = done,
                  !.selected = Append(@, sel.users),
                  !.step_num = @ + 1]

\* The iteration that leaves the loop, if any, and the CascadeResult
\* (lines 292-302, 328-329, 375-384).
PositionsResult(l, in) ==
    LET entered == l.step_num < in.max_steps
        sel == RoundSelection(l, in)
        final_util == UtilizationBp(l.debt, l.supply)
    IN  [l EXCEPT !.already_liquidated =
                      IF entered THEN @ \cup sel.users ELSE @,
                  !.selected =
                      IF entered /\ sel.at_risk # <<>> THEN Append(@, sel.users) ELSE @,
                  !.result =
                      [steps |-> l.steps,
                       total_debt_liquidated |-> l.total_debt_liquidated,
                       total_collateral_seized |-> l.total_collateral_seized,
                       final_utilization |-> final_util,
                       final_borrow_rate |->
                           variable_borrow_rate(in.rate_params, final_util)]]

\* Positions: user k holds one of these (collateral_wsteth, debt_weth); the
\* stored health_factor is the one at a price of 1.0 and a threshold of 0.9.
PositionHoldings == {<<110, 100>>, <<120, 100>>, <<135, 100>>, <<155, 100>>, <<110, 0>>}

AavePositionOf(k, holding) ==
    [user |-> k,
     collateral_wsteth |-> RInt(holding[1]),
     debt_weth |-> RInt(holding[2]),
     health_factor |-> IF holding[2] = 0 THEN RInf
                       ELSE Rat(holding[1] * 9, holding[2] * 10)]

PositionLists ==
    {<<>>} \cup
    UNION {{[k \in 1..n |-> AavePositionOf(k, h[k])] : h \in [1..n -> PositionHoldings]} :
              n \in 1..MaxPositions}

PositionsInputs ==
    [positions : PositionLists,
     initial_peg_shock : {RZero, Rat(1, 10)},
     pool_state : {[total_supply |-> 2800, total_debt |-> d] : d \in {0, 100, 2200}},
     rate_params : {DefaultRateParams},
     collateral_price : {ROne},
     liquidation_threshold : {Rat(9, 10)},
     liquidation_bonus : {Rat(1, 10)},
     max_steps : 0..MaxRounds,
     min_debt_threshold : {0, 100},
     price_impact_per_unit : {RZero, Rat(1, 550)}]

InitPositions ==
    /\ ppc = "loop"
    /\ pin \in PositionsInputs
    /\ pl = PositionsLocals(pin)
    /\ PoolIdle
    /\ McIdle
    /\ FnIdle
    /\ SeedIdle
    /\ ProvIdle

CascadePositionsRound ==
    /\ ppc = "loop"
    /\ RoundRecorded(pl, pin)
    /\ pl' = PositionsRound(pl, pin)
    /\ UNCHANGED <<ppc, pin, poolVars, mcVars, fnVars, seedVars, provVars>>

CascadePositionsReturn ==
    /\ ppc = "loop"
    /\ ~RoundRecorded(pl, pin)
    /\ pl' = PositionsResult(pl, pin)
    /\ ppc' = "return"
    /\ UNCHANGED <<pin, poolVars, mcVars, fnVars, seedVars, provVars>>

NextPositions == CascadePositionsRound \/ CascadePositionsReturn

SpecPositions == InitPositions /\ [][NextPositions]_vars


PositionsReturned == ppc = "return"

\* The sum of the positions' debt_weth.
PositionsDebt ==
    RSumSeq([k \in 1..Len(pin.positions) |-> pin.positions[k].debt_weth])

\* C30: every position is selected in at most one round, at most
\* min(max_steps, number of positions) steps are recorded,
\* total_debt_liquidated <= min(pool total_debt, sum of debt_weth), the
\* remaining pool debt never goes below 0, and the arguments are not
\* modified.
C30_EachPositionOnce ==
    ppc \in {"loop", "return"} =>
        /\ \A k \in 1..Len(pin.positions) :
              Cardinality({r \in 1..Len(pl.selected) :
                              pin.positions[k].user \in pl.selected[r]}) <= 1
        /\ \A r \in 1..Len(pl.selected) : pl.selected[r] \subseteq pl.already_liquidated
        /\ Len(pl.steps) <= Min(pin.max_steps, Len(pin.positions))
        /\ Len(pl.steps) <= Len(pl.selected)
        /\ RLe(pl.total_debt_liquidated, RInt(pin.pool_state.total_debt))
        /\ RLe(pl.total_debt_liquidated, PositionsDebt)
        /\ RGe(pl.debt, RZero)
        /\ \A i \in 1..Len(pl.steps) : RGe(pl.steps[i].total_debt, RZero)
        /\ pl.called_with = pin
        /\ PositionsReturned =>
              /\ pl.result.steps = pl.steps
              /\ pl.result.total_debt_liquidated = pl.total_debt_liquidated

\* Three positions liquidated one per round, each put at risk by the
\* price impact of the round before, at a close factor of 0.5.
C30_Witness ==
    /\ PositionsReturned
    /\ Len(pin.positions) = 3
    /\ Len(pl.result.steps) = 3
    /\ \A r \in 1..3 : Cardinality(pl.selected[r]) = 1
    /\ pl.already_liquidated = {1, 2, 3}
    /\ RLt(pl.result.total_debt_liquidated, PositionsDebt)
    /\ RLt(RZero, pl.debt)

====
